---- MODULE Spec2Model ----
(***************************************************************************)
(* ServiceTitan Prod -> Integration copier (stsync).                       *)
(*                                                                         *)
(* The module models the ID crosswalk (IDMapper), the dependency resolvers *)
(* (the _ensure_ and _find_integration_ helpers) and the two commands that *)
(* copy records (sync, copy-po) as they are written in src/stsync.py.      *)
(*                                                                         *)
(* The HTTP helpers (http_get, http_post_json, fetch_all) are modelled as  *)
(* written in src/stsync.py and in src/stsync_http.py.                     *)
(*                                                                         *)
(* Five specifications are defined:                                        *)
(*   SpecDb  the crosswalk store alone, driven by arbitrary put/get/exists *)
(*   SpecHttp the HTTP helpers alone, against arbitrary server answers     *)
(*   SpecMap the item mapper alone, applied to one source item             *)
(*   SpecRace two processes working on the same crosswalk                  *)
(*   Spec    a session of commands (sync, copy-po) against one crosswalk,  *)
(*           one source data set and one destination                       *)
(***************************************************************************)
EXTENDS Integers, Sequences, FiniteSets, TLC

(***************************************************************************)
(* Bounds of the model.                                                    *)
(***************************************************************************)
\* number of put calls explored in SpecDb
MaxPuts == 3
\* number of commands (sync / copy-po invocations) in one session of Spec
MaxRuns == 2
\* largest --limit value explored (0 = unlimited)
MaxLimit == 1
\* answers of the two environments, per session, that depart from plain success
\* (a request that raises, a create answered without id or under another key)
MaxFaults == 1

(***************************************************************************)
(* Python values.  A JSON value is a record tagged by its type, so that    *)
(* values of different types can be compared.  A dict is a function whose  *)
(* domain is the set of keys present; a str is a sequence of characters.   *)
(***************************************************************************)
JNull == [t |-> "null"]
JInt(n) == [t |-> "int", i |-> n]
JStr(s) == [t |-> "str", s |-> s]
JBool(b) == [t |-> "bool", b |-> b]
JObj(d) == [t |-> "obj", o |-> d]
JList(l) == [t |-> "list", l |-> l]

\* the empty dict {}
EmptyDict == [k \in {} |-> JNull]

\* d.get(k)
Get(d, k) == IF k \in DOMAIN d THEN d[k] ELSE JNull

\* Python truthiness: None, 0, "", False, {} and [] are falsy
Truthy(v) ==
    \/ v.t = "int" /\ v.i # 0
    \/ v.t = "str" /\ v.s # <<>>
    \/ v.t = "bool" /\ v.b
    \/ v.t = "obj" /\ DOMAIN v.o # {}
    \/ v.t = "list" /\ v.l # <<>>

\* a or b
Or2(a, b) == IF Truthy(a) THEN a ELSE b

\* (d.get(k) or {}) for a nested object; anything truthy that is not a dict
\* is treated by the callers' .get as an error and does not occur in the data
SubObj(d, k) == IF Get(d, k).t = "obj" THEN Get(d, k).o ELSE EmptyDict

Digits == <<"0", "1", "2", "3", "4", "5", "6", "7", "8", "9">>

DigitVal(c) == (CHOOSE k \in 1..10 : Digits[k] = c) - 1

IsDigit(c) == \E k \in 1..10 : Digits[k] = c

\* str(n) for a non-negative int
RECURSIVE ToStr(_)
ToStr(n) == IF n < 10 THEN <<Digits[n + 1]>> ELSE ToStr(n \div 10) \o <<Digits[(n % 10) + 1]>>

RECURSIVE DigitsVal(_)
DigitsVal(s) ==
    IF s = <<>> THEN 0 ELSE DigitsVal(SubSeq(s, 1, Len(s) - 1)) * 10 + DigitVal(s[Len(s)])

\* s.isdigit()
StrIsDigit(s) == s # <<>> /\ \A k \in 1..Len(s) : IsDigit(s[k])

\* int(s) for a str: a result record, ok = FALSE stands for ValueError
ParseInt(s) == IF StrIsDigit(s) THEN [ok |-> TRUE, val |-> DigitsVal(s)] ELSE [ok |-> FALSE, val |-> 0]

\* str(v) of a JSON scalar as the code formats ids (an int or a str)
PyStr(v) == IF v.t = "int" THEN ToStr(v.i) ELSE IF v.t = "str" THEN v.s ELSE <<>>

\* int(v) of a JSON scalar: ok = FALSE stands for ValueError / TypeError
PyInt(v) ==
    IF v.t = "int" THEN [ok |-> TRUE, val |-> v.i]
    ELSE IF v.t = "str" THEN ParseInt(v.s)
    ELSE [ok |-> FALSE, val |-> 0]

Uppers == <<"A", "B", "C", "D", "E", "I", "M", "N", "O", "P", "Q", "R", "S", "T", "U", "W">>

Lowers == <<"a", "b", "c", "d", "e", "i", "m", "n", "o", "p", "q", "r", "s", "t", "u", "w">>

\* c.lower() on the alphabet the data uses
LowerOf(c) ==
    IF \E k \in 1..Len(Uppers) : Uppers[k] = c
    THEN Lowers[CHOOSE k \in 1..Len(Uppers) : Uppers[k] = c]
    ELSE c

\* s.lower()
Lower(s) == [k \in 1..Len(s) |-> LowerOf(s[k])]

\* s.strip()
RECURSIVE Strip(_)
Strip(s) ==
    IF s = <<>> THEN s
    ELSE IF s[1] = " " THEN Strip(Tail(s))
    ELSE IF s[Len(s)] = " " THEN Strip(SubSeq(s, 1, Len(s) - 1))
    ELSE s

\* whether `sub` occurs in `s`: `sub in s`
Contains(s, sub) ==
    \E k \in 0..(Len(s) - Len(sub)) : SubSeq(s, k + 1, k + Len(sub)) = sub

\* the natural key as the _find_integration_ helpers normalise it
NormKey(s) == Lower(Strip(s))

VARIABLES
    id_map,      \* the id_map table: a set of rows [kind, prod_id, int_id, created_at]
    now,         \* time.time(), a logical clock
    ret,         \* SpecDb: the last crosswalk call and what it returned
    lastPut,     \* SpecDb: for each key, the value of the last put (None if none)
    pc,          \* Spec: position of the running command
    cmd,         \* Spec: the running command and its options
    envs,        \* Spec: the optional environment settings (default ids)
    dest,        \* Spec: the records the Integration environment holds
    nextId,      \* Spec: the next id the Integration environment assigns
    loop,        \* Spec: the locals of sync's loop (stream position, counters, caches)
    po,          \* Spec: the locals of the purchase-order flow for the current record
    step,        \* Spec: what the last step did (requests issued, crosswalk writes)
    tally,       \* Spec: per-command counts of the requests issued so far
    runs,        \* Spec: the outcome of every finished command, in order
    faults,      \* Spec: the answers so far that departed from plain success
    call,        \* SpecHttp: the running http_get / http_post_json call
    gen,         \* SpecHttp: the running fetch_all generator
    mapper,      \* SpecMap: the field mapper applied last, its input and its result
    procs,       \* SpecRace: each process's position in its get / create / put sequence
    made         \* SpecRace: the destination records the processes created, in order

dbVars == <<ret, lastPut>>

cmdVars == <<pc, cmd, envs, dest, nextId, loop, po, step, tally, runs, faults>>

httpVars == <<call, gen>>

mapVars == <<mapper>>

raceVars == <<procs, made>>

vars == <<id_map, now, ret, lastPut, pc, cmd, envs, dest, nextId, loop, po, step, tally, runs, faults,
          call, gen, mapper, procs, made>>

\* no call is running
CallIdle ==
    [fn |-> "none", impl |-> "none", base |-> "none", allow |-> FALSE, payload |-> [k \in {} |-> 0],
     state |-> "idle", attempt |-> 0, log |-> <<>>, exc |-> "none", data |-> "none"]

\* no generator is running
GenIdle ==
    [state |-> "idle", feed |-> <<>>, next_key |-> "hasMore", params |-> [k \in {} |-> 0],
     buffer |-> <<>>, yielded |-> <<>>, requested |-> <<>>]

\* no mapper was applied
MapIdle == [fn |-> "none", src |-> [k \in {} |-> 0], ok |-> FALSE, val |-> [k \in {} |-> 0]]

\* the processes of the race, before they start
Procs == {1, 2}

ProcsIdle == [p \in Procs |-> [n |-> 0, at |-> "get", int_id |-> <<>>]]

(***************************************************************************)
(* ID crosswalk (IDMapper).  Optional values are <<>> (None) or <<v>>.     *)
(***************************************************************************)
None == <<>>
Some(v) == <<v>>

\* the rows the SELECT ... WHERE kind=? AND prod_id=? matches
RowsOf(table, kind, prod_id) == {r \in table : r.kind = kind /\ r.prod_id = prod_id}

\* an INSERT that does not replace: the row is rejected when the primary key exists
DbPutNoReplace(table, kind, prod_id, int_id, t) ==
    IF RowsOf(table, kind, prod_id) # {} THEN table
    ELSE table \cup {[kind |-> kind, prod_id |-> prod_id, int_id |-> int_id, created_at |-> t]}

\* a put that replaces on prod_id alone, whatever the kind
DbPutBySource(table, kind, prod_id, int_id, t) ==
    {r \in table : r.prod_id # prod_id}
        \cup {[kind |-> kind, prod_id |-> prod_id, int_id |-> int_id, created_at |-> t]}

\* IDMapper.put: INSERT OR REPLACE on the primary key (kind, prod_id)
DbPut(table, kind, prod_id, int_id, t) ==
    (table \ RowsOf(table, kind, prod_id))
        \cup {[kind |-> kind, prod_id |-> prod_id, int_id |-> int_id, created_at |-> t]}

\* IDMapper.get: fetchone() of the SELECT, r[0] if r else None
DbGet(table, kind, prod_id) ==
    IF RowsOf(table, kind, prod_id) = {} THEN None
    ELSE Some((CHOOSE r \in RowsOf(table, kind, prod_id) : TRUE).int_id)

\* an exists that takes a stored value for a mapping only when it is a numeral
DbExistsIntOnly(table, kind, prod_id) ==
    DbGet(table, kind, prod_id) # None /\ StrIsDigit(DbGet(table, kind, prod_id)[1])

\* IDMapper.exists
DbExists(table, kind, prod_id) == DbGet(table, kind, prod_id) # None

(***************************************************************************)
(* The source data set (Production) and the seed of the destination        *)
(* (Integration).  Ids of the two environments are drawn from disjoint     *)
(* ranges, so that the side an id comes from can be read off its value.    *)
(***************************************************************************)
\* Production ids are below 200, Integration ids are not
IsIntId(n) == n >= 200

ProdMaterials ==
    [k \in {3} |-> [id |-> JInt(3), code |-> JStr(<<"A", "1">>), name |-> JStr(<<"W", "i">>)]]

ProdEquipment ==
    [k \in {4} |-> [id |-> JInt(4), itemCode |-> JStr(<<"E", "4">>)]]

ProdVendors ==
    [k \in {5} |-> [id |-> JInt(5), name |-> JStr(<<"A", "c">>)]]

ProdWarehouses ==
    [k \in {7} |-> [id |-> JInt(7), displayName |-> JStr(<<"M", "n">>)]]

ProdBusinessUnits ==
    [k \in {8} |-> [id |-> JInt(8), name |-> JStr(<<"O", "p">>)]]

\* a purchase order with a vendor, a warehouse, a business unit and two lines
PO1 ==
    [id |-> JInt(1), vendorId |-> JInt(5), warehouseId |-> JInt(7), businessUnitId |-> JInt(8),
     items |-> JList(<<
        [itemId |-> JInt(3), code |-> JStr(<<"A", "1">>), name |-> JStr(<<"W", "i">>),
         quantity |-> JInt(2), unitCost |-> JInt(10)],
        [skuId |-> JInt(4), qty |-> JInt(1)] >>)]

\* a purchase order without vendor and lines, whose warehouse is known by name only
PO2 ==
    [id |-> JInt(2), warehouse |-> JObj([name |-> JStr(<<"M", "n">>)]), lines |-> JList(<<>>)]

\* a second purchase order with a line, of the same vendor, warehouse and material
PO3 ==
    [id |-> JInt(3), vendorId |-> JInt(5), warehouseId |-> JInt(7),
     items |-> JList(<<
        [itemId |-> JInt(3), code |-> JStr(<<"A", "1">>), name |-> JStr(<<"W", "i">>),
         quantity |-> JInt(1)] >>)]

I42 ==
    [id |-> JInt(42), code |-> JStr(<<"A", "1">>), name |-> JStr(<<"W", "i">>), active |-> JBool(TRUE)]

I44 ==
    [id |-> JInt(44), itemCode |-> JStr(<<"C", "3">>), description |-> JStr(<<"N", "u">>)]

\* a record without id, guid or externalId
INoId == [code |-> JStr(<<"B", "2">>)]

\* the item that purchase orders 1 and 3 order, as the items endpoint lists it
I3 == [id |-> JInt(3), code |-> JStr(<<"A", "1">>), name |-> JStr(<<"W", "i">>)]

\* an item whose code is a number: ItemCreate rejects it
I43 == [id |-> JInt(43), code |-> JInt(7), name |-> JStr(<<"B", "o">>)]

J9 == [id |-> JInt(9), customerId |-> JInt(11), locationId |-> JInt(12), jobTypeId |-> JInt(13)]

\* a job without customerId: JobCreate rejects it
J10 == [id |-> JInt(10), locationId |-> JInt(12), jobTypeId |-> JInt(13)]

\* the pages the Production list endpoint of a kind answers with, in order
ProdPages(kind) ==
    CASE kind = "items" -> << <<I42, INoId>>, <<I44, I43, I3>> >>
      [] kind = "jobs" -> << <<J9, J10>> >>
      [] kind = "pos" -> << <<PO1>>, <<PO2, PO3>> >>

\* the records a Production purchase-order GET by id can answer with
ProdPOs == [k \in {1, 2} |-> IF k = 1 THEN PO1 ELSE PO2]

SyncKinds == {"items", "jobs", "pos"}

\* an Integration environment that already holds records with the same natural keys
DestSeeded ==
    [vendors |-> << [id |-> JInt(205), name |-> JStr(<<"A", "C", " ">>)] >>,
     warehouses |-> << [id |-> JInt(207), name |-> JStr(<<"m", "N">>)] >>,
     materials |-> << [id |-> JInt(203), code |-> JStr(<<"a", "1">>)] >>,
     bus |-> << [id |-> JInt(208), name |-> JStr(<<"O", "P">>)] >>,
     potypes |-> << [id |-> JInt(250), name |-> JStr(<<"T", "r">>)],
                    [id |-> JInt(251), name |-> JStr(<<"S", "t", "o", "c", "k">>)] >>]

\* an Integration environment that holds nothing but one purchase-order type
DestBare ==
    [vendors |-> <<>>, warehouses |-> <<>>, materials |-> <<>>, bus |-> <<>>,
     potypes |-> << [id |-> JInt(250), name |-> JStr(<<"T", "r">>)] >>]

DestSeeds == {DestSeeded, DestBare}

\* ST_DEFAULT_WAREHOUSE_ID_INT / ST_DEFAULT_BUSINESS_UNIT_ID_INT: unset or a numeral
EnvChoices ==
    {[wh |-> None, bu |-> None], [wh |-> Some(<<"2", "0", "7">>), bu |-> None]}

(***************************************************************************)
(* Requests.  Every call of http_get / http_post_json is logged as one     *)
(* request; the retries inside the HTTP helpers are modelled apart.        *)
(***************************************************************************)
\* credentials that are Production's whatever the base
CredentialsOfProd(env) == [tenant_id |-> "TENANT_ID_PROD", app_key |-> "APP_KEY_PROD"]

\* the tenant id put into the path and the ST-App-Key header, chosen by
\* http_get and http_post_json from the base they are called with
Credentials(env) ==
    IF env = "prod" THEN [tenant_id |-> "TENANT_ID_PROD", app_key |-> "APP_KEY_PROD"]
    ELSE [tenant_id |-> "TENANT_ID_INT", app_key |-> "APP_KEY_INT"]

\* a request: the method, the environment whose base URL it is sent to, the
\* resource and id of the path, the JSON body, the tenant id and the key;
\* allow is the allow_wrapper_retry argument of a POST; err is, for a create
\* call of the material resolver that raised, str(e) of the exception
Req(m, env, res, id, body) ==
    [m |-> m, env |-> env, res |-> res, id |-> id, body |-> body,
     tenant_id |-> Credentials(env).tenant_id, app_key |-> Credentials(env).app_key,
     allow |-> m = "POST", err |-> <<>>]

GetReq(env, res, id) == Req("GET", env, res, id, EmptyDict)

PostReq(res, body) == Req("POST", "int", res, 0, body)

\* http_post_json(..., allow_wrapper_retry=False)
PostReqNoWrap(res, body) == [PostReq(res, body) EXCEPT !.allow = FALSE]

\* the call raised an exception whose str() is msg
Failed(req, msg) == [req EXCEPT !.err = msg]

\* the POST requests among a sequence of requests
Posts(reqs) == {k \in 1..Len(reqs) : reqs[k].m = "POST"}

\* f"{v}" of a JSON scalar
Fmt(v) ==
    IF v.t = "null" THEN <<"N", "o", "n", "e">> ELSE PyStr(v)

\* f"PROD-{v}"
ProdTag(v) == <<"P", "R", "O", "D", "-">> \o Fmt(v)

(***************************************************************************)
(* The natural-key scans of the destination.  fetch_all pages through the  *)
(* list and the helpers stop at the first match; `fail` is the number of   *)
(* records yielded before a page request raises (-1: no request raises).   *)
(***************************************************************************)
\* the first truthy value among d.get(keys[1]) or d.get(keys[2]) ..., else last
RECURSIVE OrKeys(_, _)
OrKeys(d, keys) ==
    IF Len(keys) = 1 THEN Get(d, keys[1])
    ELSE IF Truthy(Get(d, keys[1])) THEN Get(d, keys[1])
    ELSE OrKeys(d, Tail(keys))

\* (a or b or ... or "") of string fields: the str, "" when nothing is truthy
StrOr(d, keys) == IF Truthy(OrKeys(d, keys)) /\ OrKeys(d, keys).t = "str" THEN OrKeys(d, keys).s ELSE <<>>

\* positions of the records of `list` whose key matches `key_l`
Matches(list, keys, key_l) == {k \in 1..Len(list) : NormKey(StrOr(list[k], keys)) = key_l}

\* _find_integration_vendor_by_name, _find_integration_material_by_code and
\* _find_integration_warehouse_by_name: the id of the first record whose key
\* equals `key` after strip().lower(), None if there is none; exc when a page
\* request raises before a match is reached.  reqs = 0: no request is made.
Scan(list, keys, key, fail) ==
    LET hits == Matches(list, keys, NormKey(key))
        first == IF hits = {} THEN 0 ELSE CHOOSE k \in hits : \A j \in hits : k <= j
    IN  IF NormKey(key) = <<>> THEN [exc |-> FALSE, id |-> JNull, reqs |-> 0]
        ELSE IF first # 0 /\ (fail = -1 \/ first <= fail)
             THEN [exc |-> FALSE, id |-> Get(list[first], "id"), reqs |-> 1]
        ELSE IF fail # -1 THEN [exc |-> TRUE, id |-> JNull, reqs |-> 1]
        ELSE [exc |-> FALSE, id |-> JNull, reqs |-> 1]

\* the values `fail` can take for a list
ScanFails(list) == {-1} \cup (0..Len(list))


(***************************************************************************)
(* The dependency resolvers.  A resolver works on a world                  *)
(*   w = [table, now, dest, nextId]                                        *)
(* (the crosswalk, the clock, the destination's records and the next id    *)
(* the destination assigns) and answers with a result                      *)
(*   [exc, val, w, reqs, puts]                                             *)
(* exc: it raised; val: the Optional[int] it returned; reqs: the requests  *)
(* it issued, in order; puts: the crosswalk entries it wrote, in order.    *)
(* `ch` holds what the two environments answer during the call.            *)
(***************************************************************************)
Res(exc, val, w, reqs, puts) == [exc |-> exc, val |-> val, w |-> w, reqs |-> reqs, puts |-> puts]

PutRec(kind, prod_id, int_id) == [kind |-> kind, prod_id |-> prod_id, int_id |-> int_id]

\* a put that is lost: the world stays as it is
PutWLost(w, kind, prod_id, int_id) == w

\* db.put(kind, prod_id, int_id) on a world
PutW(w, kind, prod_id, int_id) ==
    [w EXCEPT !.table = DbPut(w.table, kind, prod_id, int_id, w.now), !.now = w.now + 1]

\* the destination stores a record it was asked to create, under the next id
CreateW(w, coll, rec) ==
    [w EXCEPT !.dest[coll] = Append(@, [k \in DOMAIN rec \cup {"id"} |->
                                            IF k = "id" THEN JInt(w.nextId) ELSE rec[k]]),
              !.nextId = w.nextId + 1]

\* what http_post_json returns for a create: the new id under "id", under another
\* key, or a body without id ({} when the response is no JSON)
PostBody(outcome, nid, altKey) ==
    CASE outcome = "id" -> [k \in {"id"} |-> JInt(nid)]
      [] outcome = "alt" -> [k \in {altKey} |-> JInt(nid)]
      [] OTHER -> EmptyDict

\* http_post_json raises: the destination answered with an error
PostRaises(outcome) == outcome \in {"raise", "unique", "Unique"}

UniqueWord == <<"u", "n", "i", "q", "u", "e">>

\* str(e) of the exception http_post_json raises for an outcome: the
\* RuntimeError of a 4xx answer carries the start of the response text
PostMessage(outcome) ==
    CASE outcome = "unique" -> <<"c", "o", "d", "e", " ", "n", "o", "t", " ", "u", "n", "i", "q", "u", "e">>
      [] outcome = "Unique" -> <<"M", "U", "S", "T", " ", "B", "E", " ", "U", "N", "I", "Q", "U", "E">>
      [] OTHER -> <<"o", "o", "p", "s">>

\* a test that finds no message to speak of uniqueness
SaysUniqueNever(outcome) == FALSE

\* `"unique" in str(e).lower()`
SaysUnique(outcome) == Contains(Lower(PostMessage(outcome)), UniqueWord)

\* a test that takes no result of db.get for an entry
HitNever(existing) == FALSE

\* `if existing:` of a db.get result
Hit(existing) == existing # None /\ existing[1] # <<>>

\* `if existing: try: return int(existing) except: return None`
FromCrosswalk(existing) == IF ParseInt(existing[1]).ok THEN Some(ParseInt(existing[1]).val) ELSE None

\* a vendor resolver that creates the vendor whatever dry_run says
EnsureVendorPosts(vendor_id, w, dry_run, ch) ==
    Res(FALSE, Some(w.nextId), CreateW(w, "vendors", [name |-> JStr(<<"V">>)]),
        <<GetReq("prod", "vendors", vendor_id), PostReq("vendors", [name |-> JStr(<<"V">>)])>>, <<>>)

\* _ensure_vendor_integration
EnsureVendor(vendor_id, w, dry_run, ch) ==
    LET vid == ToStr(vendor_id)
        existing == DbGet(w.table, "vendors", vid)
        getReq == GetReq("prod", "vendors", vendor_id)
        found == ch.get /\ vendor_id \in DOMAIN ProdVendors
        v == IF found THEN ProdVendors[vendor_id] ELSE EmptyDict
        v_name == Or2(OrKeys(v, <<"name", "displayName">>), JStr(<<"V", "e", "n", "d", "o", "r", " ">> \o vid))
        scan == Scan(w.dest.vendors, <<"name", "displayName", "legalName">>, v_name.s, ch.fail)
        existing_integration_id == IF scan.exc THEN JNull ELSE scan.id
        lookup == IF scan.reqs = 0 THEN <<getReq>> ELSE <<getReq, GetReq("int", "vendors", 0)>>
        payload == [name |-> v_name,
                    externalNumber |-> Or2(Get(v, "externalNumber"), JStr(ProdTag(JInt(vendor_id))))]
        reqs == Append(lookup, PostReq("vendors", payload))
        body == PostBody(ch.post, w.nextId, "vendorId")
        new_id == Or2(Get(body, "id"), Get(body, "vendorId"))
        w1 == CreateW(w, "vendors", [name |-> v_name])
    IN  IF Hit(existing) THEN Res(FALSE, FromCrosswalk(existing), w, <<>>, <<>>)
        ELSE IF ~found THEN Res(TRUE, None, w, <<getReq>>, <<>>)
        ELSE IF Truthy(existing_integration_id)
             THEN Res(FALSE, Some(existing_integration_id.i),
                      PutW(w, "vendors", vid, PyStr(existing_integration_id)), lookup,
                      <<PutRec("vendors", vid, PyStr(existing_integration_id))>>)
        ELSE IF dry_run THEN Res(FALSE, None, w, lookup, <<>>)
        ELSE IF PostRaises(ch.post) THEN Res(TRUE, None, w, reqs, <<>>)
        ELSE IF new_id.t # "null"
             THEN Res(FALSE, Some(new_id.i), PutW(w1, "vendors", vid, PyStr(new_id)), reqs,
                      <<PutRec("vendors", vid, PyStr(new_id))>>)
        ELSE Res(FALSE, None, w1, reqs, <<>>)

\* _ensure_warehouse_integration
EnsureWarehouse(warehouse_id, w, dry_run, ch) ==
    LET wid == ToStr(warehouse_id)
        existing == DbGet(w.table, "warehouses", wid)
        getReq == GetReq("prod", "warehouses", warehouse_id)
        found == ch.get /\ warehouse_id \in DOMAIN ProdWarehouses
        wh == IF found THEN ProdWarehouses[warehouse_id] ELSE EmptyDict
        w_name == Or2(OrKeys(wh, <<"name", "displayName">>), JStr(<<"W", "a", "r", "e", "h", "o", "u", "s", "e", " ">> \o wid))
        scan == Scan(w.dest.warehouses, <<"name", "displayName">>, w_name.s, ch.fail)
        maybe_id == IF scan.exc THEN JNull ELSE scan.id
        lookup == IF scan.reqs = 0 THEN <<getReq>> ELSE <<getReq, GetReq("int", "warehouses", 0)>>
        payload == [name |-> w_name,
                    externalNumber |-> Or2(Get(wh, "externalNumber"), JStr(ProdTag(JInt(warehouse_id))))]
        reqs == Append(lookup, PostReq("warehouses", payload))
        body == PostBody(ch.post, w.nextId, "warehouseId")
        new_id == Or2(Get(body, "id"), Get(body, "warehouseId"))
        w1 == CreateW(w, "warehouses", [name |-> w_name])
    IN  IF Hit(existing) THEN Res(FALSE, FromCrosswalk(existing), w, <<>>, <<>>)
        ELSE IF ~found THEN Res(TRUE, None, w, <<getReq>>, <<>>)
        ELSE IF Truthy(maybe_id)
             THEN Res(FALSE, Some(maybe_id.i), PutW(w, "warehouses", wid, PyStr(maybe_id)), lookup,
                      <<PutRec("warehouses", wid, PyStr(maybe_id))>>)
        ELSE IF dry_run THEN Res(FALSE, None, w, lookup, <<>>)
        ELSE IF PostRaises(ch.post) THEN Res(TRUE, None, w, reqs, <<>>)
        ELSE IF new_id.t # "null"
             THEN Res(FALSE, Some(new_id.i), PutW(w1, "warehouses", wid, PyStr(new_id)), reqs,
                      <<PutRec("warehouses", wid, PyStr(new_id))>>)
        ELSE Res(FALSE, None, w1, reqs, <<>>)


\* ItemCreate(code=..., name=..., description=..., active=...): ok = FALSE stands
\* for ValidationError (code and name must be str, description str or None)
ItemCreate(code, name, description, active) ==
    [ok |-> code.t = "str" /\ name.t = "str" /\ description.t \in {"str", "null"},
     val |-> [code |-> code, name |-> name, description |-> description, active |-> JBool(active)]]

\* bool(d.get("active", True))
ActiveOf(d) == IF "active" \in DOMAIN d THEN Truthy(d["active"]) ELSE TRUE

\* the ItemCreate the material resolver builds from a fetched record;
\* what is "Material" or "Equipment"
ItemFromProd(m, item_id, what) ==
    ItemCreate(Or2(OrKeys(m, <<"code", "itemCode">>), JStr(ProdTag(JInt(item_id)))),
               Or2(OrKeys(m, <<"name", "description">>), JStr(what \o <<" ">> \o ToStr(item_id))),
               Or2(OrKeys(m, <<"description", "name">>), JStr(what \o <<" ">> \o ToStr(item_id))),
               ActiveOf(m))

MaterialWord == <<"M", "a", "t", "e", "r", "i", "a", "l">>

EquipmentWord == <<"E", "q", "u", "i", "p", "m", "e", "n", "t">>

\* the ItemCreate synthesized from the purchase-order line's hints
ItemFromHints(item_id, fallback_code, fallback_name) ==
    ItemCreate(Or2(fallback_code, JStr(ProdTag(JInt(item_id)))),
               Or2(fallback_name, JStr(MaterialWord \o <<" ">> \o ToStr(item_id))),
               Or2(Or2(fallback_name, fallback_code), JStr(MaterialWord \o <<" ">> \o ToStr(item_id))),
               TRUE)

\* f"{code} - PROD-{item_id}"
AltCode(code, item_id) == JStr(Fmt(code) \o <<" ", "-", " ">> \o ProdTag(JInt(item_id)))

\* a resolver that records materials under a kind of their own
MaterialKindOwn == "materials"

\* the kind _ensure_material_integration reads and writes the crosswalk under
MaterialKind == "items"

\* _ensure_material_integration
EnsureMaterial(item_id, w, dry_run, fallback_code, fallback_name, ch) ==
    LET iid == ToStr(item_id)
        existing == DbGet(w.table, MaterialKind, iid)
        getMat == GetReq("prod", "materials", item_id)
        getEq == GetReq("prod", "equipment", item_id)
        asMat == IF ch.mat /\ item_id \in DOMAIN ProdMaterials
                 THEN ItemFromProd(ProdMaterials[item_id], item_id, MaterialWord)
                 ELSE [ok |-> FALSE, val |-> EmptyDict]
        asEq == IF ch.eq /\ item_id \in DOMAIN ProdEquipment
                THEN ItemFromProd(ProdEquipment[item_id], item_id, EquipmentWord)
                ELSE [ok |-> FALSE, val |-> EmptyDict]
        hinted == Truthy(fallback_code) \/ Truthy(fallback_name)
        asHint == IF hinted THEN ItemFromHints(item_id, fallback_code, fallback_name)
                  ELSE [ok |-> FALSE, val |-> EmptyDict]
        item == IF asMat.ok THEN asMat ELSE IF asEq.ok THEN asEq ELSE asHint
        fetches == IF asMat.ok THEN <<getMat>> ELSE <<getMat, getEq>>
        payload == item.val
        scan == Scan(w.dest.materials, <<"code", "itemCode">>,
                     StrOr(payload, <<"code">>), ch.fail)
        lookup == IF scan.reqs = 0 THEN fetches ELSE Append(fetches, GetReq("int", "materials", 0))
        post1 == Append(lookup, PostReq("materials", payload))
        fail1 == Append(lookup, Failed(PostReq("materials", payload), PostMessage(ch.post)))
        code == Or2(Get(payload, "code"), JStr(ProdTag(JInt(item_id))))
        alt == [payload EXCEPT !["code"] = AltCode(code, item_id)]
        post2 == Append(fail1, PostReqNoWrap("materials", alt))
        fail2 == Append(fail1, Failed(PostReqNoWrap("materials", alt), PostMessage(ch.post2)))
        w1 == CreateW(w, "materials", [code |-> payload.code])
        w2 == CreateW(w, "materials", [code |-> alt.code])
        id1 == Get(PostBody(ch.post, w.nextId, "materialId"), "id")
        id2 == Get(PostBody(ch.post2, w.nextId, "materialId"), "id")
    IN  IF Hit(existing) THEN Res(FALSE, FromCrosswalk(existing), w, <<>>, <<>>)
        ELSE IF ~item.ok THEN Res(TRUE, None, w, fetches, <<>>)
        ELSE IF scan.exc THEN Res(TRUE, None, w, lookup, <<>>)
        ELSE IF Truthy(scan.id)
             THEN Res(FALSE, Some(scan.id.i), PutW(w, MaterialKind, iid, PyStr(scan.id)), lookup,
                      <<PutRec(MaterialKind, iid, PyStr(scan.id))>>)
        ELSE IF dry_run THEN Res(FALSE, None, w, lookup, <<>>)
        ELSE IF ~PostRaises(ch.post)
             THEN IF id1.t # "null"
                  THEN Res(FALSE, Some(id1.i), PutW(w1, MaterialKind, iid, PyStr(id1)), post1,
                           <<PutRec(MaterialKind, iid, PyStr(id1))>>)
                  ELSE Res(FALSE, None, w1, post1, <<>>)
        ELSE IF ~SaysUnique(ch.post) THEN Res(TRUE, None, w, fail1, <<>>)
        ELSE IF PostRaises(ch.post2) THEN Res(TRUE, None, w, fail2, <<>>)
        ELSE IF id2.t # "null"
             THEN Res(FALSE, Some(id2.i), PutW(w2, MaterialKind, iid, PyStr(id2)), post2,
                      <<PutRec(MaterialKind, iid, PyStr(id2))>>)
        ELSE Res(TRUE, None, w2, post2, <<>>)

\* _get_prod_business_unit_name: the two Production paths in turn, a failing
\* request is skipped; [name, reqs]
ProdBusinessUnitName(bu_id, ch) ==
    LET found == bu_id \in DOMAIN ProdBusinessUnits
        d == IF found THEN ProdBusinessUnits[bu_id] ELSE EmptyDict
        name == Or2(Get(d, "name"), Get(SubObj(d, "businessUnit"), "name"))
        r1 == GetReq("prod", "crm-business-units", bu_id)
        r2 == GetReq("prod", "settings-business-units", bu_id)
    IN  IF found /\ ch.p1 /\ Truthy(name) THEN [name |-> JStr(PyStr(name)), reqs |-> <<r1>>]
        ELSE IF found /\ ch.p2 /\ Truthy(name) THEN [name |-> JStr(PyStr(name)), reqs |-> <<r1, r2>>]
        ELSE [name |-> JNull, reqs |-> <<r1, r2>>]

\* _find_integration_business_unit_by_name: the first page of the two
\* Integration paths in turn, a failing request is skipped; [id, reqs]
FindBusinessUnit(name, list, ch) ==
    LET name_l == NormKey(name)
        hits == Matches(list, <<"name">>, name_l)
        first == IF hits = {} THEN 0 ELSE CHOOSE k \in hits : \A j \in hits : k <= j
        r1 == GetReq("int", "crm-business-units", 0)
        r2 == GetReq("int", "settings-business-units", 0)
    IN  IF name_l = <<>> THEN [id |-> JNull, reqs |-> <<>>]
        ELSE IF ch.i1 /\ first # 0 THEN [id |-> Get(list[first], "id"), reqs |-> <<r1>>]
        ELSE IF ch.i2 /\ first # 0 THEN [id |-> Get(list[first], "id"), reqs |-> <<r1, r2>>]
        ELSE [id |-> JNull, reqs |-> <<r1, r2>>]

StockWord == <<"s", "t", "o", "c", "k">>

InventoryWord == <<"i", "n", "v", "e", "n", "t", "o", "r", "y">>

\* _get_integration_po_type_id: the id of the first type whose name contains
\* "stock" or "inventory", else of the first type, None when the request fails
\* or there is no type
PoTypeId(kinds, ok) ==
    LET named == {k \in 1..Len(kinds) :
                    \/ Contains(Lower(StrOr(kinds[k], <<"name">>)), StockWord)
                    \/ Contains(Lower(StrOr(kinds[k], <<"name">>)), InventoryWord)}
    IN  IF ~ok THEN JNull
        ELSE IF named # {} THEN Get(kinds[CHOOSE k \in named : \A j \in named : k <= j], "id")
        ELSE IF kinds # <<>> THEN Get(kinds[1], "id")
        ELSE JNull


(***************************************************************************)
(* Field mappers.                                                          *)
(***************************************************************************)
UnknownItem == <<"U", "n", "k", "n", "o", "w", "n", " ", "I", "t", "e", "m">>

\* a mapper that takes each field from its own key only
map_item_no_fallback(src) ==
    ItemCreate(Or2(Get(src, "code"), JStr(ProdTag(Get(src, "id")))),
               Or2(Get(src, "name"), JStr(UnknownItem)),
               Or2(Get(src, "description"), JStr(UnknownItem)),
               ActiveOf(src))

\* map_item_for_create: [ok, val], ok = FALSE stands for ValidationError
map_item_for_create(src) ==
    ItemCreate(Or2(OrKeys(src, <<"code", "itemCode">>), JStr(ProdTag(Get(src, "id")))),
               Or2(OrKeys(src, <<"name", "description">>), JStr(UnknownItem)),
               Or2(OrKeys(src, <<"description", "name">>), JStr(UnknownItem)),
               ActiveOf(src))

\* `x = src.get(k); if x: s = xlate(kind, str(x)); x = int(s) if s else x`
\* [ok, val], ok = FALSE stands for the ValueError of int()
Xlate(table, kind, x) ==
    LET m == DbGet(table, kind, PyStr(x))
    IN  IF ~Truthy(x) \/ m = None \/ m = Some(<<>>) THEN [ok |-> TRUE, val |-> x]
        ELSE [ok |-> ParseInt(m[1]).ok, val |-> JInt(ParseInt(m[1]).val)]

\* a value pydantic accepts for an int field
IsIntLike(v) == v.t = "int" \/ (v.t = "str" /\ StrIsDigit(v.s))

\* map_job_for_create with xlate = db.get: [ok, val], ok = FALSE stands for the
\* ValidationError of JobCreate or the ValueError of int()
map_job_for_create(src, table) ==
    LET cust == Xlate(table, "customers", Get(src, "customerId"))
        loc == Xlate(table, "locations", Get(src, "locationId"))
        jt == Xlate(table, "jobTypes", Get(src, "jobTypeId"))
        camp == Xlate(table, "campaigns", Get(src, "campaignId"))
    IN  [ok |-> /\ cust.ok /\ loc.ok /\ jt.ok /\ camp.ok
                /\ IsIntLike(cust.val) /\ IsIntLike(loc.val) /\ IsIntLike(jt.val)
                /\ (camp.val.t = "null" \/ IsIntLike(camp.val)),
         val |-> [customerId |-> cust.val, locationId |-> loc.val, jobTypeId |-> jt.val,
                  campaignId |-> camp.val, source |-> JStr(<<"s", "t", "s", "y", "n", "c">>),
                  externalNumber |-> JStr(ProdTag(Get(src, "id")))]]

(***************************************************************************)
(* Commands.  Spec runs up to MaxRuns commands one after the other against *)
(* the same crosswalk and the same two environments.                       *)
(***************************************************************************)
CmdNone == [name |-> "none", kind |-> "none", limit |-> 0, dry_run |-> FALSE, po_id |-> 0,
            default_warehouse_id |-> 0, boot |-> "none"]

LoopIdle == [page |-> 0, off |-> 0, processed |-> 0, skipped |-> 0, created |-> 0, errors |-> 0,
             po_type_id_cache |-> JNull]

PoIdle == [src |-> EmptyDict, prod_id |-> <<>>, vendor_id |-> JNull, vendor_int_id |-> None,
           wh_int_id |-> None, bu_int_id |-> JNull, n |-> 0, items_payload |-> <<>>,
           type_id |-> JNull]

StepNone == [op |-> "none", name |-> "none", rec |-> <<>>, mapped |-> FALSE, exc |-> FALSE,
             val |-> None, reqs |-> <<>>, puts |-> <<>>, dprocessed |-> 0, dcreated |-> 0,
             dskipped |-> 0, derrors |-> 0, wh |-> None, typ |-> JNull]

TallyZero == [tops |-> 0, deps |-> 0, tokens |-> 0, seen |-> 0, handled |-> 0, types |-> 0]

\* the world the running command works on
W == [table |-> id_map, now |-> now, dest |-> dest, nextId |-> nextId]

\* the resources the top-level creates go to
TopResources == {"items", "jobs", "purchase-orders"}

\* the tally after a step issued `reqs`
Count(t, reqs) ==
    [t EXCEPT !.tops = @ + Cardinality({k \in Posts(reqs) : reqs[k].res \in TopResources}),
              !.deps = @ + Cardinality({k \in Posts(reqs) : reqs[k].res \notin TopResources}),
              !.types = @ + Cardinality({k \in 1..Len(reqs) : reqs[k].res = "purchase-order-types"})]

\* what a step did: op names the step, name the command, rec the source id of
\* the record, mapped whether the crosswalk held a row for it, exc whether the
\* step raised, val what it resolved, reqs the requests it issued and puts the
\* crosswalk entries it wrote
StepOf(op, rec, mapped, exc, val, reqs, puts) ==
    [StepNone EXCEPT !.op = op, !.name = cmd.name, !.rec = rec, !.mapped = mapped, !.exc = exc,
                     !.val = val, !.reqs = reqs, !.puts = puts]

\* the step with the changes it made to the four counters
Stamp(st, lp2) ==
    [st EXCEPT !.dprocessed = lp2.processed - loop.processed,
               !.dcreated = lp2.created - loop.created,
               !.dskipped = lp2.skipped - loop.skipped,
               !.derrors = lp2.errors - loop.errors]

\* the stream of the running sync is exhausted at the loop position lp
Exhausted(lp) ==
    /\ cmd.name = "sync"
    /\ lp.page = Len(ProdPages(cmd.kind))
    /\ (lp.page = 0 \/ lp.off = Len(ProdPages(cmd.kind)[lp.page]))

\* what is known of a command when it ends; `ending` tells how it ended:
\*   "setup"   ensure_env / load_config failed ("Setup error")
\*   "auth"    a token request failed
\*   "failed"  sync's outer handler caught an error ("Sync failed")
\*   "summary" sync printed its summary
\*   "return"  copy-po printed an error and returned
\*   "crash"   copy-po let an error escape
\*   "copied"  copy-po reached its end: dry-run output or the create call
Outcome(ending, lp, t) ==
    [name |-> cmd.name, kind |-> cmd.kind, limit |-> cmd.limit, dry_run |-> cmd.dry_run,
     boot |-> cmd.boot, ending |-> ending, processed |-> lp.processed, created |-> lp.created,
     skipped |-> lp.skipped, errors |-> lp.errors, tops |-> t.tops, deps |-> t.deps,
     tokens |-> t.tokens, seen |-> t.seen, handled |-> t.handled, types |-> t.types,
     whole |-> ending = "summary" /\ Exhausted(lp)]

\* the command goes on at `pc2`
Goto(pc2, w2, lp2, po2, st, t2) ==
    /\ pc' = pc2
    /\ id_map' = w2.table
    /\ now' = w2.now
    /\ dest' = w2.dest
    /\ nextId' = w2.nextId
    /\ loop' = lp2
    /\ po' = po2
    /\ step' = Stamp(st, lp2)
    /\ tally' = t2
    /\ UNCHANGED <<cmd, envs, runs, ret, lastPut>>

\* the command ends
Finish(ending, w2, lp2, st, t2) ==
    /\ pc' = "idle"
    /\ id_map' = w2.table
    /\ now' = w2.now
    /\ dest' = w2.dest
    /\ nextId' = w2.nextId
    /\ loop' = LoopIdle
    /\ po' = PoIdle
    /\ step' = Stamp(st, lp2)
    /\ tally' = TallyZero
    /\ runs' = Append(runs, Outcome(ending, lp2, t2))
    /\ cmd' = CmdNone
    /\ UNCHANGED <<envs, ret, lastPut>>

\* how the start of a command can go: ensure_env fails ("env"), load_config
\* fails on a missing or unparsable file ("config"), the file parses but its
\* entity has no prod_list_path, which load_config does not look at
\* ("schema"), one of the two token requests fails, or all succeed.  With
\* "schema" sync gets its tokens and fails when fetch_all reads
\* cfg["prod_list_path"]; copy-po never reads cfg and runs as with "ok".
Boots == {"ok", "env", "config", "schema", "prod_auth", "int_auth"}

\* the token requests issued by a start that goes as `boot`
TokensOf(boot) ==
    CASE boot \in {"env", "config"} -> 0
      [] boot = "prod_auth" -> 1
      [] OTHER -> 2

\* sync, up to the loop: ensure_env, load_config, IDMapper(), the two tokens,
\* and the start of fetch_all up to its first page request
StartSync(kind, limit, dry_run, boot) ==
    /\ pc = "idle"
    /\ Len(runs) < MaxRuns
    /\ cmd' = IF boot = "ok"
              THEN [name |-> "sync", kind |-> kind, limit |-> limit, dry_run |-> dry_run,
                    po_id |-> 0, default_warehouse_id |-> 0, boot |-> boot]
              ELSE CmdNone
    /\ step' = [StepOf("start", <<>>, FALSE, boot # "ok", None, <<>>, <<>>) EXCEPT !.name = "sync"]
    /\ IF boot = "ok"
       THEN /\ pc' = "stream"
            /\ tally' = [TallyZero EXCEPT !.tokens = 2]
            /\ runs' = runs
       ELSE /\ pc' = "idle"
            /\ tally' = TallyZero
            /\ runs' = Append(runs,
                    [name |-> "sync", kind |-> kind, limit |-> limit, dry_run |-> dry_run,
                     boot |-> boot,
                     ending |-> IF boot \in {"env", "config"} THEN "setup"
                                ELSE IF boot = "schema" THEN "failed" ELSE "auth",
                     processed |-> 0, created |-> 0, skipped |-> 0, errors |-> 0, tops |-> 0,
                     deps |-> 0, tokens |-> TokensOf(boot), seen |-> 0, handled |-> 0,
                     types |-> 0, whole |-> FALSE])
    /\ loop' = LoopIdle
    /\ po' = PoIdle
    /\ UNCHANGED <<id_map, now, dest, nextId, envs, ret, lastPut>>


\* the pages of the list sync streams
Pages == ProdPages(cmd.kind)

\* the page fetched last still holds a record the loop has not seen
HasRecord == loop.page >= 1 /\ loop.off < Len(Pages[loop.page])

\* the record the loop sees next
Rec == Pages[loop.page][loop.off + 1]

\* str(src.get("id") or src.get("guid") or src.get("externalId") or "")
ProdIdOf(src) == PyStr(Or2(OrKeys(src, <<"id", "guid", "externalId">>), JStr(<<>>)))

\* the loop's locals and the tally once the next record is taken from the stream
Pulled(lp) == [lp EXCEPT !.off = @ + 1]

Seen(t) == [t EXCEPT !.seen = @ + 1]

Handled(t) == [t EXCEPT !.handled = @ + 1]

\* `processed += 1` at the end of the loop body
Processed(lp) == [lp EXCEPT !.processed = @ + 1]

\* a loop that never breaks on the limit
AfterRecordNoBreak(lp) == "stream"

\* `if limit and processed >= limit: break` decides where the loop goes on
AfterRecord(lp) == IF cmd.limit # 0 /\ lp.processed >= cmd.limit THEN "summary" ELSE "stream"

\* a loop that a `continue` ends
AfterContinueStop(lp) == "summary"

\* where the loop goes on after a `continue`
AfterContinue(lp) == "stream"

\* fetch_all asks for the next page (the first one included); the request may
\* raise, which ends sync in its outer handler
FetchPage(ok) ==
    /\ pc = "stream"
    /\ ~HasRecord
    /\ loop.page < Len(Pages)
    /\ LET st == StepOf("page", <<>>, FALSE, ~ok, None, <<GetReq("prod", cmd.kind, 0)>>, <<>>)
       IN  IF ok
           THEN Goto("stream", W, [loop EXCEPT !.page = @ + 1, !.off = 0], PoIdle, st, tally)
           ELSE Finish("failed", W, loop, st, tally)

\* the stream is exhausted
EndStream ==
    /\ pc = "stream"
    /\ ~HasRecord
    /\ loop.page = Len(Pages)
    /\ Goto("summary", W, loop, PoIdle, StepOf("end", <<>>, FALSE, FALSE, None, <<>>, <<>>), tally)

\* the summary with the four counts
Summary ==
    /\ pc = "summary"
    /\ Finish("summary", W, loop, StepOf("summary", <<>>, FALSE, FALSE, None, <<>>, <<>>), tally)

\* a record without id: logged and passed over
SkipNoId ==
    /\ pc = "stream"
    /\ HasRecord
    /\ ProdIdOf(Rec) = <<>>
    /\ Goto(AfterContinue(loop), W, Pulled(loop), PoIdle,
            StepOf("noid", <<>>, FALSE, FALSE, None, <<>>, <<>>), Seen(tally))

\* `if db.exists(kind, prod_id): skipped += 1; continue`
SkipMapped ==
    /\ pc = "stream"
    /\ HasRecord
    /\ ProdIdOf(Rec) # <<>>
    /\ DbExists(id_map, cmd.kind, ProdIdOf(Rec))
    /\ LET lp == [Pulled(loop) EXCEPT !.skipped = @ + 1]
       IN  Goto(AfterContinue(lp), W, lp, PoIdle,
                StepOf("skip", ProdIdOf(Rec), RowsOf(id_map, cmd.kind, ProdIdOf(Rec)) # {}, FALSE,
                       None, <<>>, <<>>),
                Handled(Seen(tally)))

\* what a top-level create can answer: an id, a guid, no id, or an error
TopPosts == {"id", "guid", "empty", "raise"}

\* the body http_post_json returns for a top-level create
TopBody(outcome, nid) ==
    CASE outcome = "id" -> [k \in {"id"} |-> JInt(nid)]
      [] outcome = "guid" -> [k \in {"guid"} |-> JStr(<<"g">> \o ToStr(nid))]
      [] OTHER -> EmptyDict

\* a test that takes every answer of the create call for an id
IdGivenAlways(int_id) == TRUE

\* `if int_id:` on the str() of the id the create call returned
IdGiven(int_id) == int_id # <<>>

\* the loop body for items and jobs: map, create, record the mapping
SyncLegacy(post) ==
    /\ pc = "stream"
    /\ HasRecord
    /\ cmd.kind # "pos"
    /\ ProdIdOf(Rec) # <<>>
    /\ ~DbExists(id_map, cmd.kind, ProdIdOf(Rec))
    /\ LET src == Rec
           prod_id == ProdIdOf(src)
           mapped == RowsOf(id_map, cmd.kind, prod_id) # {}
           payload == IF cmd.kind = "items" THEN map_item_for_create(src)
                      ELSE map_job_for_create(src, id_map)
           req == <<PostReq(cmd.kind, payload.val)>>
           created_data == TopBody(post, nextId)
           int_id == PyStr(Or2(OrKeys(created_data, <<"id", "guid", "externalId">>), JStr(<<>>)))
           w1 == [W EXCEPT !.nextId = @ + 1]
           lp == Pulled(loop)
           t == Handled(Seen(tally))
       IN  IF ~payload.ok
           THEN Goto(AfterContinue(lp), W, [lp EXCEPT !.errors = @ + 1], PoIdle,
                     StepOf("legacy", prod_id, mapped, TRUE, None, <<>>, <<>>), t)
           ELSE IF cmd.dry_run
           THEN Goto(AfterRecord(Processed(lp)), W, Processed(lp), PoIdle,
                     StepOf("legacy", prod_id, mapped, FALSE, None, <<>>, <<>>), t)
           ELSE IF post = "raise"
           THEN Goto(AfterContinue(lp), W, [lp EXCEPT !.errors = @ + 1], PoIdle,
                     StepOf("legacy", prod_id, mapped, TRUE, None, req, <<>>), Count(t, req))
           ELSE IF IdGiven(int_id)
           THEN Goto(AfterRecord(Processed(lp)), PutW(w1, cmd.kind, prod_id, int_id),
                     Processed([lp EXCEPT !.created = @ + 1]), PoIdle,
                     StepOf("legacy", prod_id, mapped, FALSE, None, req,
                            <<PutRec(cmd.kind, prod_id, int_id)>>), Count(t, req))
           ELSE Goto(AfterRecord(Processed(lp)), w1, Processed([lp EXCEPT !.errors = @ + 1]),
                     PoIdle, StepOf("legacy", prod_id, mapped, FALSE, None, req, <<>>),
                     Count(t, req))


(***************************************************************************)
(* The purchase-order flow, shared by sync (kind pos) and copy-po.  Each   *)
(* action is one stage of the flow for the purchase order in po.src; the   *)
(* stages follow each other in the order of the command's code.            *)
(***************************************************************************)
VendorPosts == {"id", "alt", "empty", "raise"}

MaterialPosts == {"id", "empty", "raise", "unique", "Unique"}

\* Optional[int] as a JSON value
ToJ(opt) == IF opt = None THEN JNull ELSE JInt(opt[1])

\* a test that takes every Optional[int] for a value
FalsyNever(opt) == FALSE

\* `not x` for an Optional[int]
Falsy(opt) == opt = None \/ opt = Some(0)

\* a failing stage that takes back the entries of the order's dependencies
PoFailForgets(how, w2, st, t2) ==
    IF cmd.name = "sync"
    THEN Goto(AfterContinue(loop), [w2 EXCEPT !.table = {r \in @ : r.kind = "pos"}],
              [loop EXCEPT !.errors = @ + 1], PoIdle, st, Handled(t2))
    ELSE Finish(how, [w2 EXCEPT !.table = {r \in @ : r.kind = "pos"}], loop, st, t2)

\* a stage failed: sync counts an error and goes on with the next record,
\* copy-po ends (`how`: "return" after print_error, "crash" if nothing catches)
PoFail(how, w2, st, t2) ==
    IF cmd.name = "sync"
    THEN Goto(AfterContinue(loop), w2, [loop EXCEPT !.errors = @ + 1], PoIdle, st, Handled(t2))
    ELSE Finish(how, w2, loop, st, t2)

\* sync takes the next purchase order from the stream
SyncBeginPO ==
    /\ pc = "stream"
    /\ HasRecord
    /\ cmd.kind = "pos"
    /\ ProdIdOf(Rec) # <<>>
    /\ ~DbExists(id_map, cmd.kind, ProdIdOf(Rec))
    /\ Goto("vendor", W, Pulled(loop), [PoIdle EXCEPT !.src = Rec, !.prod_id = ProdIdOf(Rec)],
            StepOf("begin", ProdIdOf(Rec), RowsOf(id_map, cmd.kind, ProdIdOf(Rec)) # {}, FALSE,
                   None, <<>>, <<>>), Seen(tally))

\* copy-po, up to the vendor: setup, tokens, the Production GET of the order
CopyStart(po_id, default_warehouse_id, dry_run, boot, ok) ==
    /\ pc = "idle"
    /\ Len(runs) < MaxRuns
    /\ LET c == [name |-> "copy-po", kind |-> "pos", limit |-> 0, dry_run |-> dry_run,
                 po_id |-> po_id, default_warehouse_id |-> default_warehouse_id, boot |-> boot]
           got == boot \in {"ok", "schema"} /\ ok /\ po_id \in DOMAIN ProdPOs
           req == IF boot \in {"ok", "schema"} THEN <<GetReq("prod", "purchase-orders", po_id)>> ELSE <<>>
       IN  /\ cmd' = IF got THEN c ELSE CmdNone
           /\ step' = [StepOf("start", ToStr(po_id), FALSE, ~got, None, req, <<>>)
                         EXCEPT !.name = "copy-po"]
           /\ pc' = IF got THEN "vendor" ELSE "idle"
           /\ po' = IF got THEN [PoIdle EXCEPT !.src = ProdPOs[po_id], !.prod_id = ToStr(po_id)]
                    ELSE PoIdle
           /\ tally' = IF got THEN [TallyZero EXCEPT !.tokens = 2] ELSE TallyZero
           /\ runs' = IF got THEN runs
                      ELSE Append(runs,
                             [name |-> "copy-po", kind |-> "pos", limit |-> 0, dry_run |-> dry_run,
                              boot |-> boot,
                              ending |-> IF boot \in {"env", "config"} THEN "setup"
                                         ELSE IF boot \in {"ok", "schema"} THEN "return"
                                         ELSE "auth",
                              processed |-> 0, created |-> 0, skipped |-> 0, errors |-> 0,
                              tops |-> 0, deps |-> 0, tokens |-> TokensOf(boot), seen |-> 0,
                              handled |-> 0, types |-> 0, whole |-> FALSE])
    /\ loop' = LoopIdle
    /\ UNCHANGED <<id_map, now, dest, nextId, envs, ret, lastPut>>

\* vendor: `vendor_id = src.get("vendorId") or (src.get("vendor") or {}).get("id")`,
\* then the vendor resolver when there is one
PoVendor(ch) ==
    /\ pc = "vendor"
    /\ LET src == po.src
           vendor_id == Or2(Get(src, "vendorId"), Get(SubObj(src, "vendor"), "id"))
           next == [po EXCEPT !.vendor_id = vendor_id]
       IN  IF ~Truthy(vendor_id)
           THEN Goto("warehouse", W, loop, next,
                     StepOf("vendor", po.prod_id, FALSE, FALSE, None, <<>>, <<>>), tally)
           ELSE IF ~PyInt(vendor_id).ok
           THEN PoFail("return", W, StepOf("vendor", po.prod_id, FALSE, TRUE, None, <<>>, <<>>),
                       tally)
           ELSE \E r \in {EnsureVendor(PyInt(vendor_id).val, W, cmd.dry_run, ch)} :
                IF r.exc
                THEN PoFail("return", r.w,
                            StepOf("vendor", po.prod_id, FALSE, TRUE, None, r.reqs, r.puts),
                            Count(tally, r.reqs))
                ELSE Goto("warehouse", r.w, loop, [next EXCEPT !.vendor_int_id = r.val],
                          StepOf("vendor", po.prod_id, FALSE, FALSE, r.val, r.reqs, r.puts),
                          Count(tally, r.reqs))

\* warehouse: by id through the resolver, else by the name the order carries,
\* else the default (sync: ST_DEFAULT_WAREHOUSE_ID_INT, copy-po: the option).
\* sync lets an error of the resolver or of the scan fail the record; copy-po
\* swallows both.
PoWarehouse(ch, nfail) ==
    /\ pc = "warehouse"
    /\ LET src == po.src
           sync == cmd.name = "sync"
           warehouse_id == Or2(Get(src, "warehouseId"), Get(SubObj(src, "warehouse"), "id"))
           warehouse_name == Or2(Get(SubObj(src, "warehouse"), "name"), JStr(<<>>))
           byId == Truthy(warehouse_id) /\ PyInt(warehouse_id).ok
       IN  \E r \in {IF byId THEN EnsureWarehouse(PyInt(warehouse_id).val, W, cmd.dry_run, ch)
                     ELSE Res(Truthy(warehouse_id), None, W, <<>>, <<>>)} :
           \E wh1 \in {IF r.exc THEN None ELSE r.val} :
           \E byName \in {wh1 = None /\ Truthy(warehouse_name)} :
           \E scan \in {IF byName
                        THEN Scan(r.w.dest.warehouses, <<"name", "displayName">>,
                                  PyStr(warehouse_name), nfail)
                        ELSE [exc |-> FALSE, id |-> JNull, reqs |-> 0]} :
           \E wh2 \in {IF byName /\ ~scan.exc /\ scan.id.t = "int" THEN Some(scan.id.i) ELSE wh1} :
           \E wh3 \in {IF wh2 # None THEN wh2
                       ELSE IF sync
                       THEN IF envs.wh # None /\ StrIsDigit(envs.wh[1])
                            THEN Some(ParseInt(envs.wh[1]).val) ELSE None
                       ELSE IF cmd.default_warehouse_id # 0 THEN Some(cmd.default_warehouse_id)
                       ELSE None} :
           \E reqs \in {IF scan.reqs = 0 THEN r.reqs
                        ELSE Append(r.reqs, GetReq("int", "warehouses", 0))} :
               IF sync /\ (r.exc \/ scan.exc)
               THEN PoFail("return", r.w,
                           StepOf("warehouse", po.prod_id, FALSE, TRUE, None,
                                  IF r.exc THEN r.reqs ELSE reqs, r.puts),
                           Count(tally, IF r.exc THEN r.reqs ELSE reqs))
               ELSE Goto(IF sync THEN "bu" ELSE "line", r.w, loop, [po EXCEPT !.wh_int_id = wh3],
                         StepOf("warehouse", po.prod_id, FALSE, FALSE, wh3, reqs, r.puts),
                         Count(tally, reqs))

\* business unit, best effort: the name from the order or from Production,
\* the id by name from Integration, else ST_DEFAULT_BUSINESS_UNIT_ID_INT
PoBusinessUnit(ch) ==
    /\ pc = "bu"
    /\ LET src == po.src
           sync == cmd.name = "sync"
           bu_obj == SubObj(src, "businessUnit")
           name0 == Get(bu_obj, "name")
           bu_id_prod == Or2(Get(src, "businessUnitId"), Get(bu_obj, "id"))
           ask == ~Truthy(name0) /\ Truthy(bu_id_prod)
           bad == ask /\ ~PyInt(bu_id_prod).ok
           looked == IF ask /\ ~bad THEN ProdBusinessUnitName(PyInt(bu_id_prod).val, ch)
                     ELSE [name |-> name0, reqs |-> <<>>]
           bu_name == IF bad THEN JNull ELSE looked.name
           found == IF Truthy(bu_name) THEN FindBusinessUnit(PyStr(bu_name), dest.bus, ch)
                    ELSE [id |-> JNull, reqs |-> <<>>]
           bu_int_id == IF Truthy(found.id) THEN found.id
                        ELSE IF envs.bu # None /\ StrIsDigit(envs.bu[1])
                        THEN JInt(ParseInt(envs.bu[1]).val)
                        ELSE found.id
           reqs == looked.reqs \o found.reqs
       IN  IF sync /\ bad
           THEN PoFail("return", W, StepOf("bu", po.prod_id, FALSE, TRUE, None, <<>>, <<>>), tally)
           ELSE Goto(IF sync THEN "line" ELSE "submit", W, loop, [po EXCEPT !.bu_int_id = bu_int_id],
                     StepOf("bu", po.prod_id, FALSE, FALSE, None, reqs, <<>>), Count(tally, reqs))

\* `src.get("items") or src.get("lines") or []`
LinesOf(src) == IF Truthy(OrKeys(src, <<"items", "lines">>)) THEN OrKeys(src, <<"items", "lines">>).l ELSE <<>>

\* a dict kept with its None values
DropNothing(d) == d

\* a dict without its None values
DropNone(d) == [k \in {x \in DOMAIN d : d[x].t # "null"} |-> d[k]]

\* the entry of items[] built from a line and the id the material resolver returned
LinePayload(ln, int_item_id) ==
    [itemId |-> ToJ(int_item_id), skuId |-> ToJ(int_item_id),
     quantity |-> Or2(OrKeys(ln, <<"quantity", "qty">>), JInt(0)),
     unitCost |-> OrKeys(ln, <<"unitCost", "unitPrice", "cost">>)]

\* one line of the order: the material resolver, then the items[] entry
PoLine(ch) ==
    /\ pc = "line"
    /\ po.n < Len(LinesOf(po.src))
    /\ LET ln == LinesOf(po.src)[po.n + 1]
           src_item_id == OrKeys(ln, <<"itemId", "pricebookItemId", "materialId", "equipmentId", "skuId">>)
           code_hint == OrKeys(ln, <<"code", "itemCode", "skuCode", "sku">>)
           name_hint == OrKeys(ln, <<"name", "skuName", "description">>)
           next == [po EXCEPT !.n = @ + 1]
       IN  IF ~Truthy(src_item_id)
           THEN Goto("line", W, loop, next,
                     StepOf("line", po.prod_id, FALSE, FALSE, None, <<>>, <<>>), tally)
           ELSE IF ~PyInt(src_item_id).ok
           THEN PoFail("return", W, StepOf("line", po.prod_id, FALSE, TRUE, None, <<>>, <<>>), tally)
           ELSE \E r \in {EnsureMaterial(PyInt(src_item_id).val, W, cmd.dry_run, code_hint,
                                         name_hint, ch)} :
                IF r.exc
                THEN PoFail("return", r.w,
                            StepOf("line", po.prod_id, FALSE, TRUE, None, r.reqs, r.puts),
                            Count(tally, r.reqs))
                ELSE Goto("line", r.w, loop,
                          [next EXCEPT !.items_payload = Append(@, LinePayload(ln, r.val))],
                          StepOf("line", po.prod_id, FALSE, FALSE, r.val, r.reqs, r.puts),
                          Count(tally, r.reqs))

\* all lines are done: sync passes over an order without items
PoLinesDone ==
    /\ pc = "line"
    /\ po.n = Len(LinesOf(po.src))
    /\ IF cmd.name = "sync" /\ po.items_payload = <<>>
       THEN Goto(AfterContinue(loop), W, [loop EXCEPT !.skipped = @ + 1], PoIdle,
                 [StepOf("nolines", po.prod_id, FALSE, FALSE, None, <<>>, <<>>)
                     EXCEPT !.wh = po.wh_int_id, !.typ = loop.po_type_id_cache],
                 Handled(tally))
       ELSE Goto("potype", W, loop, po,
                 StepOf("lines", po.prod_id, FALSE, FALSE, None, <<>>, <<>>), tally)


\* a cache test that never finds a value
CacheIsNoneAlways(c) == TRUE

\* `if po_type_id_cache is None`
CacheIsNone(c) == c.t = "null"

\* purchase-order type, then the check that a warehouse was resolved.
\* sync looks the type up while its cache is None and counts an error when
\* either is missing; copy-po looks it up, falls back to its option and to
\* ST_DEFAULT_WAREHOUSE_ID_INT for the warehouse, and returns when either is
\* missing.
PoType(ok) ==
    /\ pc = "potype"
    /\ LET sync == cmd.name = "sync"
           ask == ~sync \/ CacheIsNone(loop.po_type_id_cache)
           type_id == IF ask THEN PoTypeId(dest.potypes, ok) ELSE loop.po_type_id_cache
           reqs == IF ask THEN <<GetReq("int", "purchase-order-types", 0)>> ELSE <<>>
           lp == IF sync THEN [loop EXCEPT !.po_type_id_cache = type_id] ELSE loop
           wh1 == IF ~sync /\ Falsy(po.wh_int_id) /\ cmd.default_warehouse_id # 0
                  THEN Some(cmd.default_warehouse_id) ELSE po.wh_int_id
           wh2 == IF ~sync /\ Falsy(wh1) /\ envs.wh # None /\ envs.wh[1] # <<>>
                     /\ ParseInt(envs.wh[1]).ok
                  THEN Some(ParseInt(envs.wh[1]).val) ELSE wh1
           missing == ~Truthy(type_id) \/ Falsy(wh2)
           st == [StepOf("potype", po.prod_id, FALSE, missing, None, reqs, <<>>)
                     EXCEPT !.wh = wh2, !.typ = type_id]
       IN  IF missing
           THEN IF sync
                THEN Goto(AfterContinue(lp), W, [lp EXCEPT !.errors = @ + 1], PoIdle, st,
                          Handled(Count(tally, reqs)))
                ELSE Finish("return", W, lp, st, Count(tally, reqs))
           ELSE Goto(IF sync THEN "submit" ELSE "bu", W, lp,
                     [po EXCEPT !.type_id = type_id, !.wh_int_id = wh2], st, Count(tally, reqs))

\* _get_integration_warehouse_info: the record with this id found by a scan of
\* the Integration warehouses, {} if there is none; exc when a page request
\* raises before the record is reached
WarehouseInfo(list, wh_id, fail) ==
    LET hits == {k \in 1..Len(list) : PyInt(Get(list[k], "id")).ok /\ PyInt(Get(list[k], "id")).val = wh_id}
        first == IF hits = {} THEN 0 ELSE CHOOSE k \in hits : \A j \in hits : k <= j
    IN  IF first # 0 /\ (fail = -1 \/ first <= fail) THEN [exc |-> FALSE, wh |-> list[first]]
        ELSE IF fail # -1 THEN [exc |-> TRUE, wh |-> EmptyDict]
        ELSE [exc |-> FALSE, wh |-> EmptyDict]

ShipToWord == <<"S", "h", "i", "p">>

\* po_body, None fields dropped.  The fields that are constants or copies of
\* dates and addresses (date, requiredOn, tax, shipping, shipTo.address,
\* impactsTechnicianPayroll, and in each item quantityOrdered, cost,
\* description, vendorPartNumber) are left out: nothing below reads them.
PoBody(p, wh_details) ==
    DropNone(
        [vendorId |-> IF p.vendor_int_id # None THEN JInt(p.vendor_int_id[1])
                      ELSE IF Truthy(p.vendor_id) THEN JInt(PyInt(p.vendor_id).val)
                      ELSE JInt(0),
         typeId |-> JInt(PyInt(p.type_id).val),
         externalNumber |-> JStr(ProdTag(Or2(Get(p.src, "id"), JStr(p.prod_id)))),
         inventoryLocationId |-> ToJ(p.wh_int_id),
         shipTo |-> JObj([inventoryLocationId |-> ToJ(p.wh_int_id),
                          description |-> Or2(OrKeys(wh_details, <<"name", "displayName">>),
                                              JStr(ShipToWord))]),
         businessUnitId |-> IF Truthy(p.bu_int_id) THEN JInt(PyInt(p.bu_int_id).val) ELSE JNull,
         items |-> JList([k \in 1..Len(p.items_payload) |-> DropNone(p.items_payload[k])])])

PoPosts == {"id", "alt", "empty", "raise"}

\* the last stage: the warehouse details, the body, and unless dry-run the
\* create call and the crosswalk entry of the order
PoSubmit(dfail, post) ==
    /\ pc = "submit"
    /\ LET sync == cmd.name = "sync"
           info == WarehouseInfo(dest.warehouses, po.wh_int_id[1], dfail)
           scanReq == <<GetReq("int", "warehouses", 0)>>
           po_body == PoBody(po, info.wh)
           reqs == Append(scanReq, PostReqNoWrap("purchase-orders", po_body))
           created_data == PostBody(post, nextId, "purchaseOrderId")
           int_id == IF sync THEN Or2(Get(created_data, "id"), JStr(<<>>))
                     ELSE Or2(Get(created_data, "id"), Get(created_data, "purchaseOrderId"))
           key == IF sync THEN po.prod_id ELSE PyStr(Or2(Get(po.src, "id"), JStr(po.prod_id)))
           w1 == [W EXCEPT !.nextId = @ + 1]
           done == Processed(loop)
       IN  IF info.exc
           THEN PoFail("crash", W, StepOf("submit", po.prod_id, FALSE, TRUE, None, scanReq, <<>>),
                       Count(tally, scanReq))
           ELSE IF cmd.dry_run
           THEN IF sync
                THEN Goto(AfterRecord(done), W, done, PoIdle,
                          StepOf("submit", po.prod_id, FALSE, FALSE, None, scanReq, <<>>),
                          Handled(Count(tally, scanReq)))
                ELSE Finish("copied", W, loop,
                            StepOf("submit", po.prod_id, FALSE, FALSE, None, scanReq, <<>>),
                            Count(tally, scanReq))
           ELSE IF PostRaises(post)
           THEN PoFail("return", W, StepOf("submit", po.prod_id, FALSE, TRUE, None, reqs, <<>>),
                       Count(tally, reqs))
           ELSE IF Truthy(int_id)
           THEN LET w2 == PutW(w1, "pos", key, PyStr(int_id))
                    st == StepOf("submit", po.prod_id, FALSE, FALSE, Some(int_id.i), reqs,
                                 <<PutRec("pos", key, PyStr(int_id))>>)
                IN  IF sync
                    THEN Goto(AfterRecord(done), w2, [done EXCEPT !.created = @ + 1], PoIdle, st,
                              Handled(Count(tally, reqs)))
                    ELSE Finish("copied", w2, loop, st, Count(tally, reqs))
           ELSE LET st == StepOf("submit", po.prod_id, FALSE, FALSE, None, reqs, <<>>)
                IN  IF sync
                    THEN Goto(AfterRecord(done), w1, [done EXCEPT !.errors = @ + 1], PoIdle, st,
                              Handled(Count(tally, reqs)))
                    ELSE Finish("copied", w1, loop, st, Count(tally, reqs))

(***************************************************************************)
(* Spec: a session of commands.                                            *)
(***************************************************************************)
Init ==
    /\ id_map = {}
    /\ now = 0
    /\ ret = [op |-> "none", kind |-> "", prod_id |-> <<>>, got |-> None, found |-> FALSE]
    /\ lastPut = [k \in {} |-> None]
    /\ pc = "idle"
    /\ cmd = CmdNone
    /\ envs \in EnvChoices
    /\ dest \in DestSeeds
    /\ nextId = 300
    /\ loop = LoopIdle
    /\ po = PoIdle
    /\ step = StepNone
    /\ tally = TallyZero
    /\ runs = <<>>
    /\ faults = 0
    /\ call = CallIdle
    /\ gen = GenIdle
    /\ mapper = MapIdle
    /\ procs = ProcsIdle
    /\ made = <<>>

\* what a choice adds to the count of answers that depart from plain success
OddB(b) == IF b THEN 0 ELSE 1

OddF(fail) == IF fail = -1 THEN 0 ELSE 1

OddP(post) == IF post = "id" THEN 0 ELSE 1

\* the step stays within the session's number of such answers
Within(n) == faults + n <= MaxFaults /\ faults' = faults + n /\ UNCHANGED <<httpVars, mapVars, raceVars>>

\* the session's second command repeats the first, the same command on the
\* same kind with options of its own, or is a sync of items after a command
\* on purchase orders
Again(name, kind) ==
    \/ \A i \in 1..Len(runs) : runs[i].name = name /\ runs[i].kind = kind
    \/ name = "sync" /\ kind = "items" /\ \A i \in 1..Len(runs) : runs[i].kind = "pos"

Next ==
    \/ \E kind \in SyncKinds, limit \in 0..MaxLimit, dry_run \in BOOLEAN, boot \in Boots :
            /\ Again("sync", kind)
            /\ Within(OddB(boot = "ok"))
            /\ StartSync(kind, limit, dry_run, boot)
    \/ \E ok \in BOOLEAN : Within(OddB(ok)) /\ FetchPage(ok)
    \/ Within(0) /\ EndStream
    \/ Within(0) /\ Summary
    \/ Within(0) /\ SkipNoId
    \/ Within(0) /\ SkipMapped
    \/ \E post \in TopPosts : Within(OddP(post)) /\ SyncLegacy(post)
    \/ Within(0) /\ SyncBeginPO
    \/ \E po_id \in DOMAIN ProdPOs, dwh \in {0, 207}, dry_run \in BOOLEAN, boot \in Boots,
          ok \in BOOLEAN :
            /\ Again("copy-po", "pos")
            /\ Within(OddB(boot = "ok") + OddB(ok))
            /\ CopyStart(po_id, dwh, dry_run, boot, ok)
    \/ \E ch \in [get : BOOLEAN, fail : ScanFails(dest.vendors), post : VendorPosts] :
            Within(OddB(ch.get) + OddF(ch.fail) + OddP(ch.post)) /\ PoVendor(ch)
    \/ \E ch \in [get : BOOLEAN, fail : ScanFails(dest.warehouses), post : VendorPosts],
          nfail \in ScanFails(dest.warehouses) :
            /\ Within(OddB(ch.get) + OddF(ch.fail) + OddP(ch.post) + OddF(nfail))
            /\ PoWarehouse(ch, nfail)
    \/ \E ch \in [p1 : BOOLEAN, p2 : BOOLEAN, i1 : BOOLEAN, i2 : BOOLEAN] :
            /\ Within(OddB(ch.p1) + OddB(ch.p2) + OddB(ch.i1) + OddB(ch.i2))
            /\ PoBusinessUnit(ch)
    \/ \E ch \in [mat : BOOLEAN, eq : BOOLEAN, fail : ScanFails(dest.materials),
                  post : MaterialPosts, post2 : MaterialPosts] :
            /\ Within(OddB(ch.mat) + OddB(ch.eq) + OddF(ch.fail) + OddP(ch.post) + OddP(ch.post2))
            /\ PoLine(ch)
    \/ Within(0) /\ PoLinesDone
    \/ \E ok \in BOOLEAN : Within(OddB(ok)) /\ PoType(ok)
    \/ \E dfail \in ScanFails(dest.warehouses), post \in PoPosts :
            Within(OddF(dfail) + OddP(post)) /\ PoSubmit(dfail, post)

Spec == Init /\ [][Next]_vars

(***************************************************************************)
(* SpecDb: the crosswalk store on its own, under any sequence of calls.    *)
(***************************************************************************)
DbKinds == {"items", "vendors"}

DbIds == {<<"1">>, <<"2">>}

\* the values put is called with: str(new_id) of a number, a guid, and ""
DbVals == {<<"3", "0", "0">>, <<"g">>, <<>>}

RetNone == [op |-> "none", kind |-> "", prod_id |-> <<>>, got |-> None, found |-> FALSE]

InitDb ==
    /\ id_map = {}
    /\ now = 0
    /\ ret = RetNone
    /\ lastPut = [k \in {} |-> None]
    /\ pc = "idle"
    /\ cmd = CmdNone
    /\ envs = [wh |-> None, bu |-> None]
    /\ dest = DestBare
    /\ nextId = 300
    /\ loop = LoopIdle
    /\ po = PoIdle
    /\ step = StepNone
    /\ tally = TallyZero
    /\ runs = <<>>
    /\ faults = 0
    /\ call = CallIdle
    /\ gen = GenIdle
    /\ mapper = MapIdle
    /\ procs = ProcsIdle
    /\ made = <<>>

\* db.put(kind, prod_id, int_id)
Put(kind, prod_id, int_id) ==
    /\ now < MaxPuts
    /\ id_map' = DbPut(id_map, kind, prod_id, int_id, now)
    /\ now' = now + 1
    /\ lastPut' = [k \in DOMAIN lastPut \cup {<<kind, prod_id>>} |->
                      IF k = <<kind, prod_id>> THEN int_id ELSE lastPut[k]]
    /\ ret' = [RetNone EXCEPT !.op = "put", !.kind = kind, !.prod_id = prod_id]
    /\ UNCHANGED cmdVars
    /\ UNCHANGED <<httpVars, mapVars, raceVars>>

\* db.get(kind, prod_id)
GetCall(kind, prod_id) ==
    /\ ret' = [RetNone EXCEPT !.op = "get", !.kind = kind, !.prod_id = prod_id,
                              !.got = DbGet(id_map, kind, prod_id)]
    /\ UNCHANGED <<id_map, now, lastPut>>
    /\ UNCHANGED cmdVars
    /\ UNCHANGED <<httpVars, mapVars, raceVars>>

\* db.exists(kind, prod_id)
ExistsCall(kind, prod_id) ==
    /\ ret' = [RetNone EXCEPT !.op = "exists", !.kind = kind, !.prod_id = prod_id,
                              !.found = DbExists(id_map, kind, prod_id)]
    /\ UNCHANGED <<id_map, now, lastPut>>
    /\ UNCHANGED cmdVars
    /\ UNCHANGED <<httpVars, mapVars, raceVars>>

NextDb ==
    \/ \E kind \in DbKinds, prod_id \in DbIds, int_id \in DbVals : Put(kind, prod_id, int_id)
    \/ \E kind \in DbKinds, prod_id \in DbIds : GetCall(kind, prod_id)
    \/ \E kind \in DbKinds, prod_id \in DbIds : ExistsCall(kind, prod_id)

SpecDb == InitDb /\ [][NextDb]_vars

(***************************************************************************)
(* SpecHttp: the HTTP helpers on their own.  A call of http_get or of      *)
(* http_post_json runs under tenacity's retry decorator: each attempt runs *)
(* the function body once against the answers the server gives; the call   *)
(* record keeps every request sent and its answer in `log`.  Both copies   *)
(* of the helpers are modelled: impl "stsync" is src/stsync.py, impl       *)
(* "stsync_http" is src/stsync_http.py.  fetch_all is a generator: it      *)
(* requests a page, yields its items one by one, then decides whether      *)
(* another page follows.                                                   *)
(***************************************************************************)
\* stop_after_attempt(4)
Attempts == 4

\* PAGE_SIZE_DEFAULT
PageSizeDefault == 200

\* page requests explored for one fetch_all
MaxRequests == 5

Impls == {"stsync", "stsync_http"}

\* the `base` argument: API_BASE_PROD, API_BASE_INT, anything else
Bases == {"prod", "int", "other"}

RequestWord == <<"r", "e", "q", "u", "e", "s", "t">>

HintText == <<"b", "a", "d", " ", "R", "e", "q", "u", "e", "s", "t">>

PlainText == <<"o", "o", "p", "s">>

\* what the server answers to one request: the status, the body text and
\* whether the body is JSON; status 0 stands for httpx.ConnectError
Answer(status, text, json) == [status |-> status, text |-> text, json |-> json]

Answers ==
    {Answer(200, <<>>, TRUE), Answer(200, PlainText, FALSE),
     Answer(404, HintText, FALSE), Answer(404, PlainText, FALSE),
     Answer(429, PlainText, FALSE),
     Answer(500, HintText, FALSE), Answer(500, PlainText, FALSE),
     Answer(0, <<>>, FALSE)}

\* the payloads http_post_json is called with
Payloads == {[name |-> JStr(<<"A", "c">>)]}

\* {"request": payload}
Wrap(payload) == [request |-> payload]

\* a request that was sent with this body, and its answer
Sent(body, a) == [body |-> body, status |-> a.status, text |-> a.text]

\* how one run of a function body ended: the requests it sent, the exception
\* it raised ("none": it returned) and what it returned
Out(log, exc, data) == [log |-> log, exc |-> exc, data |-> data]

\* r.raise_for_status() raises httpx.HTTPStatusError
RaisesForStatus(status) == status >= 400

\* `"request" in (r.text or "").lower()`
HintsWrapper(text) == Contains(Lower(text), RequestWord)

\* the body of http_get in src/stsync.py, run once
http_get(base, a) ==
    IF base \notin {"prod", "int"} THEN Out(<<>>, "ValueError", "none")
    ELSE IF a.status = 0 THEN Out(<<Sent(EmptyDict, a)>>, "ConnectError", "none")
    ELSE IF a.status = 429 THEN Out(<<Sent(EmptyDict, a)>>, "HTTPStatusError", "none")
    ELSE IF a.status >= 500 THEN Out(<<Sent(EmptyDict, a)>>, "RuntimeError", "none")
    ELSE IF RaisesForStatus(a.status) THEN Out(<<Sent(EmptyDict, a)>>, "HTTPStatusError", "none")
    ELSE IF ~a.json THEN Out(<<Sent(EmptyDict, a)>>, "JSONDecodeError", "none")
    ELSE Out(<<Sent(EmptyDict, a)>>, "none", "json")

\* the wrapper retry both copies of http_post_json make: the wrapped payload is
\* sent once; any failure of it is swallowed and RuntimeError follows
WrapperRetry(payload, a, a2) ==
    IF a2.status = 0 \/ RaisesForStatus(a2.status)
    THEN Out(<<Sent(payload, a), Sent(Wrap(payload), a2)>>, "RuntimeError", "none")
    ELSE Out(<<Sent(payload, a), Sent(Wrap(payload), a2)>>, "none",
             IF a2.json THEN "json" ELSE "empty")

\* the body of http_post_json in src/stsync.py, run once
http_post_json(base, payload, allow_wrapper_retry, a, a2) ==
    IF base \notin {"prod", "int"} THEN Out(<<>>, "ValueError", "none")
    ELSE IF a.status = 0 THEN Out(<<Sent(payload, a)>>, "ConnectError", "none")
    ELSE IF a.status = 429 THEN Out(<<Sent(payload, a)>>, "HTTPStatusError", "none")
    ELSE IF 400 <= a.status /\ a.status < 500
         THEN IF allow_wrapper_retry /\ HintsWrapper(a.text)
              THEN WrapperRetry(payload, a, a2)
              ELSE Out(<<Sent(payload, a)>>, "RuntimeError", "none")
    ELSE IF RaisesForStatus(a.status) THEN Out(<<Sent(payload, a)>>, "HTTPStatusError", "none")
    ELSE Out(<<Sent(payload, a)>>, "none", IF a.json THEN "json" ELSE "empty")

\* _handle_rate_limit_and_server_error: raises for 429, True for 5xx, else False
handle_rate_limit_and_server_error(a) ==
    [raises |-> a.status = 429, server |-> a.status # 429 /\ a.status >= 500]

\* the body of http_get in src/stsync_http.py, run once
mod_http_get(base, a) ==
    IF base \notin {"prod", "int"} THEN Out(<<>>, "ValueError", "none")
    ELSE IF a.status = 0 THEN Out(<<Sent(EmptyDict, a)>>, "ConnectError", "none")
    ELSE IF handle_rate_limit_and_server_error(a).raises
         THEN Out(<<Sent(EmptyDict, a)>>, "HTTPStatusError", "none")
    ELSE IF handle_rate_limit_and_server_error(a).server
         THEN Out(<<Sent(EmptyDict, a)>>, "RuntimeError", "none")
    ELSE IF RaisesForStatus(a.status) THEN Out(<<Sent(EmptyDict, a)>>, "HTTPStatusError", "none")
    ELSE IF ~a.json THEN Out(<<Sent(EmptyDict, a)>>, "JSONDecodeError", "none")
    ELSE Out(<<Sent(EmptyDict, a)>>, "none", "json")

\* the body of http_post_json in src/stsync_http.py, run once
mod_http_post_json(base, payload, allow_wrapper_retry, a, a2) ==
    IF base \notin {"prod", "int"} THEN Out(<<>>, "ValueError", "none")
    ELSE IF a.status = 0 THEN Out(<<Sent(payload, a)>>, "ConnectError", "none")
    ELSE IF handle_rate_limit_and_server_error(a).raises
         THEN Out(<<Sent(payload, a)>>, "HTTPStatusError", "none")
    ELSE IF handle_rate_limit_and_server_error(a).server
         THEN IF allow_wrapper_retry /\ HintsWrapper(a.text)
              THEN WrapperRetry(payload, a, a2)
              ELSE Out(<<Sent(payload, a)>>, "RuntimeError", "none")
    ELSE IF RaisesForStatus(a.status) THEN Out(<<Sent(payload, a)>>, "HTTPStatusError", "none")
    ELSE Out(<<Sent(payload, a)>>, "none", IF a.json THEN "json" ELSE "empty")

\* the body of token in src/stsync.py and src/stsync_auth.py, run once: a 429
\* answer is re-raised as httpx.HTTPStatusError; every other failure, a
\* connection error and a body without access_token among them, is raised as
\* RuntimeError by the handlers of its try statement
token(a) ==
    IF a.status = 0 THEN Out(<<Sent(EmptyDict, a)>>, "RuntimeError", "none")
    ELSE IF a.status = 429 THEN Out(<<Sent(EmptyDict, a)>>, "HTTPStatusError", "none")
    ELSE IF RaisesForStatus(a.status) THEN Out(<<Sent(EmptyDict, a)>>, "RuntimeError", "none")
    ELSE IF ~a.json THEN Out(<<Sent(EmptyDict, a)>>, "RuntimeError", "none")
    ELSE Out(<<Sent(EmptyDict, a)>>, "none", "json")

\* one run of the body of the function the call `c` names
BodyOf(c, a, a2) ==
    CASE c.fn = "token" -> token(a)
      [] c.fn = "get" /\ c.impl = "stsync" -> http_get(c.base, a)
      [] c.fn = "get" /\ c.impl = "stsync_http" -> mod_http_get(c.base, a)
      [] c.fn = "post" /\ c.impl = "stsync" -> http_post_json(c.base, c.payload, c.allow, a, a2)
      [] OTHER -> mod_http_post_json(c.base, c.payload, c.allow, a, a2)

\* every exception is retried, whatever its type
RetriedAny(exc) == TRUE

\* retry_if_exception_type((httpx.HTTPStatusError, httpx.ConnectError))
Retried(exc) == exc \in {"HTTPStatusError", "ConnectError"}

\* the stop condition is met one attempt late
StopLate(attempt) == attempt >= Attempts + 1

\* stop_after_attempt(4): `attempt` attempts have been made
Stop(attempt) == attempt >= Attempts

\* tenacity after an attempt that ended as `out`: the value is returned; an
\* exception of a retried type leads to another attempt, or to RetryError once
\* the stop condition holds; any other exception is raised as it is
Tenacity(c, out) ==
    [c EXCEPT !.attempt = c.attempt + 1,
              !.log = c.log \o out.log,
              !.data = out.data,
              !.state = IF out.exc = "none" THEN "returned"
                        ELSE IF Retried(out.exc) /\ ~Stop(c.attempt + 1) THEN "running"
                        ELSE "raised",
              !.exc = IF out.exc = "none" THEN "none"
                      ELSE IF ~Retried(out.exc) THEN out.exc
                      ELSE IF Stop(c.attempt + 1) THEN "RetryError"
                      ELSE "none"]

\* a caller calls http_get, http_post_json or token
HttpCall(fn, impl, base, allow, payload) ==
    /\ call.state # "running"
    /\ call' = [CallIdle EXCEPT !.fn = fn, !.impl = impl, !.base = base, !.allow = allow,
                                !.payload = payload, !.state = "running"]
    /\ gen' = GenIdle
    /\ UNCHANGED <<id_map, now, dbVars, cmdVars, mapVars, raceVars>>

\* one attempt of the running call; a2 answers the wrapped request if one is sent
HttpAttempt(a, a2) ==
    /\ call.state = "running"
    /\ call' = Tenacity(call, BodyOf(call, a, a2))
    /\ UNCHANGED <<gen, id_map, now, dbVars, cmdVars, mapVars, raceVars>>

\* the JSON object a list endpoint answers with: the records under "items",
\* "hasMore" when `more` is not "absent", "nextPage" when `nxt` is not null
PageData(items, more, nxt) ==
    [k \in {"items"} \cup (IF more = "absent" THEN {} ELSE {"hasMore"})
                     \cup (IF nxt = JNull THEN {} ELSE {"nextPage"}) |->
        IF k = "items" THEN JList(items)
        ELSE IF k = "hasMore" THEN JBool(more = "true")
        ELSE nxt]

\* a source that ends on page 1
FeedOne == <<PageData(<<"a", "b">>, "false", JNull), PageData(<<"c">>, "false", JNull)>>

\* a source that says hasMore until page 3
FeedThree ==
    <<PageData(<<"a">>, "true", JNull), PageData(<<"b", "c">>, "true", JNull),
      PageData(<<"d">>, "false", JNull), PageData(<<"e">>, "false", JNull)>>

\* a source that names the next page by number, then by token
FeedNext ==
    <<PageData(<<"a">>, "absent", JInt(2)), PageData(<<"b">>, "absent", JStr(<<"3">>)),
      PageData(<<"c">>, "absent", JStr(<<>>))>>

\* a source that says nothing about further pages
FeedBare == <<PageData(<<"a">>, "absent", JNull), PageData(<<>>, "absent", JNull)>>

\* a source that answers with both hasMore and a next-page value
FeedBoth ==
    <<PageData(<<"a">>, "true", JInt(3)), PageData(<<"b">>, "false", JStr(<<"3">>)),
      PageData(<<"c">>, "false", JNull)>>

Feeds == {FeedOne, FeedThree, FeedNext, FeedBare, FeedBoth}

\* entity configurations: the defaults, and one with paging parameters
CfgPlain ==
    [list_params |-> EmptyDict, list_data_key |-> JNull, next_page_key |-> JNull,
     since_param |-> JNull]

CfgPaged ==
    [list_params |-> [page |-> JInt(1), pageSize |-> JInt(1)], list_data_key |-> JStr(<<"items">>),
     next_page_key |-> JStr(<<"nextPage">>), since_param |-> JStr(<<"since">>)]

CfgZero ==
    [list_params |-> [page |-> JInt(1), pageSize |-> JInt(0)], list_data_key |-> JNull,
     next_page_key |-> JStr(<<"nextPage">>), since_param |-> JNull]

\* a configuration whose list_params ask for a page size and name no page
CfgSized ==
    [list_params |-> [pageSize |-> JInt(1)], list_data_key |-> JNull, next_page_key |-> JNull,
     since_param |-> JNull]

Cfgs == {CfgPlain, CfgPaged, CfgZero, CfgSized}

\* d[k] = v, whether or not d has k
Put1(d, k, v) == [x \in DOMAIN d \cup {k} |-> IF x = k THEN v ELSE d[x]]

\* the page a request with these params asks for
PageOf(params) ==
    IF "continuationToken" \in DOMAIN params THEN PyInt(params["continuationToken"]).val
    ELSE IF "page" \in DOMAIN params THEN PyInt(params["page"]).val
    ELSE 1

\* what the source answers to a request with these params
Serve(feed, params) ==
    IF PageOf(params) \in 1..Len(feed) THEN feed[PageOf(params)]
    ELSE PageData(<<>>, "absent", JNull)

\* fetch_all up to its loop: params, with pageSize defaulted and since added
FirstParams(cfg, since) ==
    LET p0 == cfg.list_params
        p1 == IF "pageSize" \in DOMAIN p0 /\ ~Truthy(p0["pageSize"])
              THEN Put1(p0, "pageSize", JInt(PageSizeDefault)) ELSE p0
    IN  IF Truthy(since) /\ Truthy(cfg.since_param) THEN Put1(p1, "since", since) ELSE p1

\* `cfg.get("next_page_key") or "hasMore"`
NextKeyOf(cfg) == IF Truthy(cfg.next_page_key) THEN "nextPage" ELSE "hasMore"

\* the loop goes on whenever the answer has "hasMore", whatever it says
PaginateAlways(data, params, next_key, n) ==
    [more |-> "hasMore" \in DOMAIN data \/ Get(data, next_key).t = "int",
     params |-> Put1(params, "page", JInt(PageOf(params) + 1))]

\* the fallback takes a missing "page" for page 1
PaginateDefaultPage(data, params, next_key, n) ==
    IF "hasMore" \in DOMAIN data
    THEN [more |-> Truthy(data["hasMore"]),
          params |-> IF Truthy(data["hasMore"])
                     THEN Put1(params, "page", JInt(PageOf(params) + 1)) ELSE params]
    ELSE IF Get(data, next_key).t = "int"
    THEN [more |-> TRUE, params |-> Put1(params, "page", Get(data, next_key))]
    ELSE IF Get(data, next_key).t = "str" /\ Truthy(Get(data, next_key))
    THEN [more |-> TRUE, params |-> Put1(params, "continuationToken", Get(data, next_key))]
    ELSE IF "pageSize" \in DOMAIN params /\ n >= PyInt(params["pageSize"]).val
    THEN [more |-> TRUE,
          params |-> Put1(params, "page",
                          JInt(PyInt(IF "page" \in DOMAIN params THEN params["page"]
                                     ELSE JInt(1)).val + 1))]
    ELSE [more |-> FALSE, params |-> params]

\* the next-page key is consulted before "hasMore"
PaginateKeyFirst(data, params, next_key, n) ==
    IF Get(data, next_key).t = "int"
    THEN [more |-> TRUE, params |-> Put1(params, "page", Get(data, next_key))]
    ELSE IF Get(data, next_key).t = "str" /\ Truthy(Get(data, next_key))
    THEN [more |-> TRUE, params |-> Put1(params, "continuationToken", Get(data, next_key))]
    ELSE [more |-> "hasMore" \in DOMAIN data /\ Truthy(data["hasMore"]),
          params |-> IF "hasMore" \in DOMAIN data /\ Truthy(data["hasMore"])
                     THEN Put1(params, "page", JInt(PageOf(params) + 1)) ELSE params]

\* the end of fetch_all's loop body: whether another page is requested, and
\* with which params; n is len(items)
Paginate(data, params, next_key, n) ==
    IF "hasMore" \in DOMAIN data
    THEN IF Truthy(data["hasMore"])
         THEN [more |-> TRUE,
               params |-> Put1(params, "page",
                               JInt(PyInt(IF "page" \in DOMAIN params THEN params["page"]
                                          ELSE JInt(1)).val + 1))]
         ELSE [more |-> FALSE, params |-> params]
    ELSE IF Get(data, next_key).t = "int"
    THEN [more |-> TRUE, params |-> Put1(params, "page", Get(data, next_key))]
    ELSE IF Get(data, next_key).t = "str" /\ Truthy(Get(data, next_key))
    THEN [more |-> TRUE, params |-> Put1(params, "continuationToken", Get(data, next_key))]
    ELSE IF "page" \in DOMAIN params /\ "pageSize" \in DOMAIN params
            /\ n >= PyInt(params["pageSize"]).val
    THEN [more |-> TRUE, params |-> Put1(params, "page", JInt(PyInt(params["page"]).val + 1))]
    ELSE [more |-> FALSE, params |-> params]

\* a caller starts fetch_all(cfg, base, bearer, since) against a source
FetchStart(cfg, feed, since) ==
    /\ gen.state \in {"idle", "done", "raised"}
    /\ call.state # "running"
    /\ gen' = [GenIdle EXCEPT !.state = "request", !.feed = feed, !.next_key = NextKeyOf(cfg),
                              !.params = FirstParams(cfg, since)]
    /\ call' = CallIdle
    /\ UNCHANGED <<id_map, now, dbVars, cmdVars, mapVars, raceVars>>

\* the top of the loop: http_get of the page the params name (ok: it returns),
\* `items = data.get(list_key) or []`
FetchRequest(ok) ==
    /\ gen.state = "request"
    /\ Len(gen.requested) < MaxRequests
    /\ gen' = [gen EXCEPT !.requested = Append(@, gen.params),
                          !.state = IF ok THEN "yield" ELSE "raised",
                          !.buffer = IF ok /\ Truthy(Get(Serve(gen.feed, gen.params), "items"))
                                     THEN Get(Serve(gen.feed, gen.params), "items").l ELSE <<>>]
    /\ UNCHANGED <<call, id_map, now, dbVars, cmdVars, mapVars, raceVars>>

\* `yield it`
FetchYield ==
    /\ gen.state = "yield"
    /\ gen.buffer # <<>>
    /\ gen' = [gen EXCEPT !.yielded = Append(@, Head(gen.buffer)), !.buffer = Tail(@)]
    /\ UNCHANGED <<call, id_map, now, dbVars, cmdVars, mapVars, raceVars>>

\* the pagination handling runs while records of the page are still to be yielded
FetchAdvanceEarly ==
    /\ gen.state = "yield"
    /\ \E d \in {Serve(gen.feed, gen.requested[Len(gen.requested)])} :
       \E p \in {Paginate(d, gen.params, gen.next_key,
                          IF Truthy(Get(d, "items")) THEN Len(Get(d, "items").l) ELSE 0)} :
           gen' = [gen EXCEPT !.state = IF p.more THEN "request" ELSE "done",
                              !.params = p.params]
    /\ UNCHANGED <<call, id_map, now, dbVars, cmdVars, mapVars, raceVars>>

\* the pagination handling after the last item of the page
FetchAdvance ==
    /\ gen.state = "yield"
    /\ gen.buffer = <<>>
    /\ \E d \in {Serve(gen.feed, gen.requested[Len(gen.requested)])} :
       \E p \in {Paginate(d, gen.params, gen.next_key,
                          IF Truthy(Get(d, "items")) THEN Len(Get(d, "items").l) ELSE 0)} :
           gen' = [gen EXCEPT !.state = IF p.more THEN "request" ELSE "done",
                              !.params = p.params]
    /\ UNCHANGED <<call, id_map, now, dbVars, cmdVars, mapVars, raceVars>>

InitHttp ==
    /\ id_map = {}
    /\ now = 0
    /\ ret = RetNone
    /\ lastPut = [k \in {} |-> None]
    /\ pc = "idle"
    /\ cmd = CmdNone
    /\ envs = [wh |-> None, bu |-> None]
    /\ dest = DestBare
    /\ nextId = 300
    /\ loop = LoopIdle
    /\ po = PoIdle
    /\ step = StepNone
    /\ tally = TallyZero
    /\ runs = <<>>
    /\ faults = 0
    /\ call = CallIdle
    /\ gen = GenIdle
    /\ mapper = MapIdle
    /\ procs = ProcsIdle
    /\ made = <<>>

NextHttp ==
    \/ \E fn \in {"get", "post", "token"}, impl \in Impls, base \in Bases, allow \in BOOLEAN,
          payload \in Payloads :
            /\ fn # "post" => (allow = FALSE)
            /\ fn = "token" => (base # "other")
            /\ HttpCall(fn, impl, base, allow, IF fn = "post" THEN payload ELSE EmptyDict)
    \/ \E a \in Answers, a2 \in Answers : HttpAttempt(a, a2)
    \/ \E cfg \in Cfgs, feed \in Feeds, since \in {JNull, JStr(<<"t">>)} : FetchStart(cfg, feed, since)
    \/ \E ok \in BOOLEAN : FetchRequest(ok)
    \/ FetchYield
    \/ FetchAdvance

SpecHttp == InitHttp /\ [][NextHttp]_vars

(***************************************************************************)
(* SpecMap: the item mapper on its own, applied to one source item drawn   *)
(* from the items below: every key is absent or holds one of its values.   *)
(***************************************************************************)
WidgetWord == <<"W", "i", "d", "g", "e", "t">>

ItemKeys == {"id", "code", "itemCode", "name", "description", "active"}

ItemFieldVals(k) ==
    CASE k = "id" -> {JInt(42)}
      [] k = "code" -> {JStr(<<"A", "1">>), JStr(<<>>), JInt(7)}
      [] k = "itemCode" -> {JStr(<<"C", "3">>)}
      [] k = "name" -> {JStr(WidgetWord), JNull}
      [] k = "description" -> {JStr(<<"N", "u">>)}
      [] k = "active" -> {JBool(TRUE), JBool(FALSE)}

ItemInputs ==
    UNION {{f \in [K -> UNION {ItemFieldVals(k) : k \in K}] : \A k \in K : f[k] \in ItemFieldVals(k)}
             : K \in SUBSET ItemKeys}

InitMap ==
    /\ id_map = {}
    /\ now = 0
    /\ ret = RetNone
    /\ lastPut = [k \in {} |-> None]
    /\ pc = "idle"
    /\ cmd = CmdNone
    /\ envs = [wh |-> None, bu |-> None]
    /\ dest = DestBare
    /\ nextId = 300
    /\ loop = LoopIdle
    /\ po = PoIdle
    /\ step = StepNone
    /\ tally = TallyZero
    /\ runs = <<>>
    /\ faults = 0
    /\ call = CallIdle
    /\ gen = GenIdle
    /\ mapper \in {[MapIdle EXCEPT !.src = src] : src \in ItemInputs}
    /\ procs = ProcsIdle
    /\ made = <<>>

\* map_item_for_create(src)
MapItem ==
    /\ mapper.fn = "none"
    /\ \E r \in {map_item_for_create(mapper.src)} :
          mapper' = [fn |-> "map_item_for_create", src |-> mapper.src, ok |-> r.ok, val |-> r.val]
    /\ UNCHANGED <<id_map, now, dbVars, cmdVars, httpVars, raceVars>>

NextMap == MapItem

SpecMap == InitMap /\ [][NextMap]_vars

(***************************************************************************)
(* SpecRace: two processes on the same crosswalk file and the same         *)
(* destination.  Each works through the same keys: first the vendor of a   *)
(* purchase order, as _ensure_vendor_integration does (db.get, the scan by *)
(* name, the create call, db.put), then the order itself as sync does      *)
(* (db.exists, the create call, db.put).  Every db call opens its own      *)
(* connection and runs one statement, so it is one step; nothing holds the *)
(* store between two calls of a process.                                   *)
(***************************************************************************)
RaceKeys == <<[kind |-> "vendors", prod_id |-> <<"5">>], [kind |-> "pos", prod_id |-> <<"1">>]>>

\* the key process p works on
RaceKey(p) == RaceKeys[procs[p].n + 1]

\* the destination records made for a key, in the order they were created
MadeFor(key) == {k \in 1..Len(made) : made[k].kind = key.kind /\ made[k].prod_id = key.prod_id}

InitRace ==
    /\ id_map = {}
    /\ now = 0
    /\ ret = RetNone
    /\ lastPut = [k \in {} |-> None]
    /\ pc = "idle"
    /\ cmd = CmdNone
    /\ envs = [wh |-> None, bu |-> None]
    /\ dest = DestBare
    /\ nextId = 300
    /\ loop = LoopIdle
    /\ po = PoIdle
    /\ step = StepNone
    /\ tally = TallyZero
    /\ runs = <<>>
    /\ faults = 0
    /\ call = CallIdle
    /\ gen = GenIdle
    /\ mapper = MapIdle
    /\ procs = ProcsIdle
    /\ made = <<>>

\* db.get / db.exists: a hit ends the work on the key
RaceGet(p) ==
    /\ procs[p].n < Len(RaceKeys)
    /\ procs[p].at = "get"
    /\ procs' = [procs EXCEPT ![p] =
                    IF DbExists(id_map, RaceKey(p).kind, RaceKey(p).prod_id)
                    THEN [@ EXCEPT !.n = @ + 1]
                    ELSE [@ EXCEPT !.at = IF RaceKey(p).kind = "vendors" THEN "scan" ELSE "create"]]
    /\ UNCHANGED <<id_map, now, dbVars, cmdVars, httpVars, mapVars, made>>

\* the resolver's scan of the destination by name: the first record made for
\* the same source record is a match
RaceScan(p) ==
    /\ procs[p].n < Len(RaceKeys)
    /\ procs[p].at = "scan"
    /\ procs' = [procs EXCEPT ![p] =
                    IF MadeFor(RaceKey(p)) # {}
                    THEN [@ EXCEPT !.at = "put",
                                   !.int_id = made[CHOOSE k \in MadeFor(RaceKey(p)) :
                                                      \A j \in MadeFor(RaceKey(p)) : k <= j].int_id]
                    ELSE [@ EXCEPT !.at = "create"]]
    /\ UNCHANGED <<id_map, now, dbVars, cmdVars, httpVars, mapVars, made>>

\* the create call: the destination makes a record and answers with its id
RaceCreate(p) ==
    /\ procs[p].n < Len(RaceKeys)
    /\ procs[p].at = "create"
    /\ \E new_id \in {ToStr(300 + Len(made))} :
          /\ made' = Append(made, [kind |-> RaceKey(p).kind, prod_id |-> RaceKey(p).prod_id,
                                   int_id |-> new_id, by |-> p])
          /\ procs' = [procs EXCEPT ![p] = [@ EXCEPT !.at = "put", !.int_id = new_id]]
    /\ UNCHANGED <<id_map, now, dbVars, cmdVars, httpVars, mapVars>>

\* a put that leaves an existing row alone (INSERT OR IGNORE)
RacePutIgnore(p) ==
    /\ procs[p].n < Len(RaceKeys)
    /\ procs[p].at = "put"
    /\ id_map' = DbPutNoReplace(id_map, RaceKey(p).kind, RaceKey(p).prod_id, procs[p].int_id, now)
    /\ now' = now + 1
    /\ lastPut' = [k \in DOMAIN lastPut \cup {<<RaceKey(p).kind, RaceKey(p).prod_id>>} |->
                      IF k = <<RaceKey(p).kind, RaceKey(p).prod_id>> THEN procs[p].int_id
                      ELSE lastPut[k]]
    /\ procs' = [procs EXCEPT ![p] = [@ EXCEPT !.n = @ + 1, !.at = "get", !.int_id = <<>>]]
    /\ UNCHANGED <<ret, cmdVars, httpVars, mapVars, made>>

\* db.put(kind, prod_id, int_id)
RacePut(p) ==
    /\ procs[p].n < Len(RaceKeys)
    /\ procs[p].at = "put"
    /\ id_map' = DbPut(id_map, RaceKey(p).kind, RaceKey(p).prod_id, procs[p].int_id, now)
    /\ now' = now + 1
    /\ lastPut' = [k \in DOMAIN lastPut \cup {<<RaceKey(p).kind, RaceKey(p).prod_id>>} |->
                      IF k = <<RaceKey(p).kind, RaceKey(p).prod_id>> THEN procs[p].int_id
                      ELSE lastPut[k]]
    /\ procs' = [procs EXCEPT ![p] = [@ EXCEPT !.n = @ + 1, !.at = "get", !.int_id = <<>>]]
    /\ UNCHANGED <<ret, cmdVars, httpVars, mapVars, made>>

NextRace ==
    \/ \E p \in Procs : RaceGet(p)
    \/ \E p \in Procs : RaceScan(p)
    \/ \E p \in Procs : RaceCreate(p)
    \/ \E p \in Procs : RacePut(p)

SpecRace == InitRace /\ [][NextRace]_vars

(***************************************************************************)
(* Properties.                                                             *)
(***************************************************************************)
\* the purchase-order create calls among the requests of the last step
PoCreates == {k \in Posts(step.reqs) : step.reqs[k].res = "purchase-orders"}

\* the steps that handle a streamed record
RecordOps == {"legacy", "vendor", "warehouse", "bu", "line", "potype", "submit"}

\* sync runs i and j > i of the same kind, run i having ended with a summary
\* that reports no error
Twice(i, j) ==
    /\ i < j
    /\ runs[i].name = "sync" /\ runs[j].name = "sync"
    /\ runs[i].kind = runs[j].kind
    /\ runs[i].ending = "summary" /\ runs[i].errors = 0

C2_MappedIsSkipped ==
    step.mapped =>
        /\ step.op = "skip"
        /\ step.reqs = <<>> /\ step.puts = <<>>
        /\ step.dskipped = 1 /\ step.dcreated = 0 /\ step.derrors = 0 /\ step.dprocessed = 0
        /\ pc = "stream"

\* sync has just passed over a mapped record
C2_Witness == step.op = "skip" /\ step.mapped /\ step.name = "sync" /\ loop.skipped = 1

\* C3: get returns the value of the last put for the key (None when there was
\* none), and exists is true exactly when get returns a value
C3_GetReturnsLastPut ==
    /\ ret.op = "get" =>
            ret.got = IF <<ret.kind, ret.prod_id>> \in DOMAIN lastPut
                      THEN Some(lastPut[<<ret.kind, ret.prod_id>>]) ELSE None
    /\ ret.op = "exists" => (ret.found <=> DbGet(id_map, ret.kind, ret.prod_id) # None)
    /\ \A kind \in DbKinds, prod_id \in DbIds :
            DbExists(id_map, kind, prod_id) <=> <<kind, prod_id>> \in DOMAIN lastPut

\* get has answered for a key that was put twice, with two different values
C3_Witness ==
    /\ ret.op = "get"
    /\ ret.got = Some(<<"g">>)
    /\ now = 2
    /\ id_map = {[kind |-> ret.kind, prod_id |-> ret.prod_id, int_id |-> <<"g">>, created_at |-> 1]}

\* what the natural-key rule asks of a resolver step at `stage`, when the
\* crosswalk has no entry for the source id and the destination list `coll`
\* holds a record whose key equals `name` after strip().lower(): no create
\* call, and, unless the resolver raised, that record's id in the crosswalk
Dedup(stage, coll, kind, keys, src_id, name) ==
    LET hits == Matches(dest[coll], keys, NormKey(name))
        first == CHOOSE k \in hits : \A j \in hits : k <= j
        id == Get(dest[coll][first], "id")
    IN  (/\ pc = stage /\ step'.op = stage
         /\ DbGet(id_map, kind, ToStr(src_id)) = None
         /\ hits # {})
        => /\ \A k \in Posts(step'.reqs) : step'.reqs[k].res # coll
           /\ ~step'.exc => step'.puts = <<PutRec(kind, ToStr(src_id), PyStr(id))>>

\* C4: when the crosswalk has no entry and the destination holds a record of
\* the same name (vendor, warehouse) or code (material), the resolver returns
\* that record's id, writes it to the crosswalk and issues no create call
C4_NaturalKeyDedup ==
    [][/\ Get(po.src, "vendorId") = JInt(5) =>
            Dedup("vendor", "vendors", "vendors", <<"name", "displayName", "legalName">>, 5,
                  ProdVendors[5].name.s)
       /\ Get(po.src, "warehouseId") = JInt(7) =>
            Dedup("warehouse", "warehouses", "warehouses", <<"name", "displayName">>, 7,
                  ProdWarehouses[7].displayName.s)
       /\ (po.n = 0 /\ po.src = PO1) =>
            Dedup("line", "materials", "items", <<"code", "itemCode">>, 3,
                  ProdMaterials[3].code.s)]_vars

\* C5: every line of a submitted purchase-order payload carries a
\* destination-side material id
C5_LinesCarryMaterialId ==
    \A k \in PoCreates :
        \A n \in 1..Len(step.reqs[k].body["items"].l) :
            LET line == step.reqs[k].body["items"].l[n]
            IN  "itemId" \in DOMAIN line /\ IsIntId(line["itemId"].i)

\* C6: the vendorId of a submitted purchase-order payload is a destination-side
\* vendor id or zero
C6_VendorIdIsDestinationOrZero ==
    \A k \in PoCreates :
        step.reqs[k].body["vendorId"].i = 0 \/ IsIntId(step.reqs[k].body["vendorId"].i)

\* no purchase-order create is submitted, or about to be, without a warehouse
\* id and a purchase-order-type id
C7_NoCreateWithout ==
    /\ pc = "submit" => po.wh_int_id # None /\ Truthy(po.type_id)
    /\ \A k \in PoCreates :
            /\ "inventoryLocationId" \in DOMAIN step.reqs[k].body
            /\ Truthy(step.reqs[k].body["typeId"])

\* the last step of sync counted the record as an error and went on
CountedAsError ==
    step.derrors = 1 /\ step.dskipped = 0 /\ step.dcreated = 0 /\ pc = "stream"

C8_FailureDoesNotStop ==
    /\ (step.name = "sync" /\ step.op \in RecordOps /\ step.exc)
       => step.derrors = 1 /\ pc = "stream"
    /\ (pc = "summary" /\ cmd.limit = 0) => Exhausted(loop)

\* a record has failed after an earlier one had failed already
C8_Witness ==
    /\ step.name = "sync" /\ step.op \in RecordOps /\ step.exc
    /\ loop.errors = 2 /\ pc = "stream"

\* C9: once authentication has succeeded, sync ends with its summary
C9_AlwaysSummary ==
    \A i \in 1..Len(runs) :
        runs[i].name = "sync" /\ runs[i].ending \notin {"setup", "auth"}
            => runs[i].ending = "summary"

\* C10 as stated: with a limit N > 0 the loop goes on only while fewer than N
\* records were created, skipped or failed
C10_LimitCountsAll ==
    (cmd.name = "sync" /\ cmd.limit > 0 /\ pc = "stream") => tally.handled < cmd.limit

\* C10 amended: with a limit N > 0 the loop goes on only while fewer than N
\* records were processed and stops when N were, where a record counts as
\* processed when its loop body ran to the end, not when it was skipped or
\* failed with an exception
C10_LimitCountsProcessed ==
    /\ (cmd.name = "sync" /\ cmd.limit > 0) =>
            /\ pc # "summary" => loop.processed < cmd.limit
            /\ (pc = "summary" /\ step.op # "end") => loop.processed = cmd.limit
    /\ (step.op \in {"skip", "noid", "nolines"} \/ step.exc) => step.dprocessed = 0
    /\ (step.op \in {"legacy", "submit"} /\ step.name = "sync" /\ ~step.exc)
            => step.dprocessed = 1

\* the limit has stopped the stream after a record that did not count
C10_Witness ==
    /\ cmd.name = "sync" /\ cmd.limit = 1 /\ pc = "summary"
    /\ step.op # "end" /\ loop.processed = 1
    /\ loop.skipped + loop.errors >= 1


\* the k-th request of the call carried the payload as it was given
Plain(k) == call.log[k].body = call.payload

\* the k-th request of the call was answered with this class of status
ClientError(k) == call.log[k].status >= 400 /\ call.log[k].status < 500 /\ call.log[k].status # 429

ServerError(k) == call.log[k].status >= 500

\* after the k-th request the call made no further unwrapped request and has
\* ended; it returned only through a wrapped request
Surfaced(k) ==
    /\ call.state # "running"
    /\ \A j \in (k + 1)..Len(call.log) : ~Plain(j)
    /\ call.state = "returned" => ~Plain(Len(call.log))

\* C11: an http_get call whose every attempt is answered with 429 goes on
\* until it has issued 4 requests, and then has raised
C11_Get429FourThenRaises ==
    (call.fn = "get" /\ call.log # <<>> /\ \A k \in 1..Len(call.log) : call.log[k].status = 429)
        => IF Len(call.log) < 4 THEN call.state = "running"
           ELSE Len(call.log) = 4 /\ call.state = "raised"

C11_Witness ==
    /\ call.fn = "get"
    /\ call.state = "raised"
    /\ Len(call.log) = 4
    /\ \A k \in 1..4 : call.log[k].status = 429

\* C12: an unwrapped request of http_get or http_post_json answered with a 4xx
\* status other than 429 is the call's last unwrapped request and the call
\* surfaces the error at once
C12_ClientErrorNotRetried ==
    \A k \in 1..Len(call.log) : (Plain(k) /\ ClientError(k)) => Surfaced(k)

\* C13: an unwrapped request of http_get or http_post_json answered with a 5xx
\* status is the call's last unwrapped request and the call surfaces the error
\* at once
C13_ServerErrorNotRetried ==
    \A k \in 1..Len(call.log) : (Plain(k) /\ ServerError(k)) => Surfaced(k)

\* C14: with wrapper retry allowed, a 5xx answer to http_post_json whose body
\* contains "request" is followed by exactly one further request, which carries
\* {"request": payload}; a 5xx answer without it is followed by no wrapped request
C14_WrapperOnServerErrorHint ==
    (call.fn = "post" /\ call.allow) =>
        \A k \in 1..Len(call.log) :
            (Plain(k) /\ ServerError(k)) =>
                IF HintsWrapper(call.log[k].text)
                THEN Len(call.log) = k + 1 /\ call.log[k + 1].body = Wrap(call.payload)
                ELSE k < Len(call.log) => Plain(k + 1)

\* C15: one http_post_json call sends the wrapped payload at most once and
\* never when allow_wrapper_retry is false; the wrapped request is the call's
\* last request, and the call has raised if it failed
C15_WrapperIsOneShot ==
    call.fn = "post" =>
        /\ Cardinality({k \in 1..Len(call.log) : ~Plain(k)}) <= 1
        /\ ~call.allow => \A k \in 1..Len(call.log) : Plain(k)
        /\ \A k \in 1..Len(call.log) :
              ~Plain(k) => /\ k = Len(call.log)
                           /\ call.state # "running"
                           /\ (call.log[k].status = 0 \/ call.log[k].status >= 400)
                                 => call.state = "raised"

C15_Witness ==
    /\ call.fn = "post"
    /\ call.state = "raised"
    /\ Len(call.log) >= 3
    /\ ~Plain(Len(call.log))
    /\ call.log[Len(call.log)].status = 500

\* the records of the first n pages of a source, in order
RECURSIVE FirstPages(_, _)
FirstPages(feed, n) == IF n = 0 THEN <<>> ELSE FirstPages(feed, n - 1) \o Get(feed[n], "items").l

\* C16: against a source that answers hasMore=false on page 1, fetch_all
\* requests one page and yields its records; against a source that answers
\* hasMore=true until page 3 it requests pages 1, 2, 3 and no other and yields
\* their records in order
C16_FetchAllFollowsHasMore ==
    /\ gen.feed = FeedOne =>
          /\ Len(gen.requested) <= 1
          /\ gen.state = "done" => gen.yielded = FirstPages(FeedOne, 1)
    /\ gen.feed = FeedThree =>
          /\ \A k \in 1..Len(gen.requested) : k <= 3 /\ PageOf(gen.requested[k]) = k
          /\ gen.state = "done" => gen.yielded = FirstPages(FeedThree, 3)

C16_Witness ==
    /\ gen.feed = FeedThree
    /\ gen.state = "done"
    /\ Len(gen.requested) = 3
    /\ Len(gen.yielded) = 4

\* the command that took the last step was a dry run
StepDryRun == IF cmd # CmdNone THEN cmd.dry_run ELSE runs # <<>> /\ runs[Len(runs)].dry_run

\* the last step ran a resolver that found neither a crosswalk entry nor a
\* destination record to reuse
ResolverMustCreate ==
    /\ step.op \in {"vendor", "line"}
    /\ ~step.exc
    /\ step.reqs # <<>>
    /\ step.puts = <<>>

\* C17: a dry run (sync of any kind, copy-po, the resolvers they call) issues
\* no POST to the destination, and a resolver that would have to create
\* returns None
C17_DryRunIssuesNoWrite ==
    /\ StepDryRun => Posts(step.reqs) = {}
    /\ cmd.dry_run => tally.tops + tally.deps = 0
    /\ \A i \in 1..Len(runs) : runs[i].dry_run => runs[i].tops + runs[i].deps = 0
    /\ (StepDryRun /\ ResolverMustCreate) => step.val = None

C17_Witness ==
    /\ StepDryRun
    /\ ResolverMustCreate
    /\ step.op = "line"
    /\ step.name = "sync"
    /\ step.val = None

\* C18: a dry run writes no crosswalk entry
C18_DryRunLeavesCrosswalk == StepDryRun => step.puts = <<>>

\* C19 as stated: for two sync runs of the same kind, the first without
\* errors, the skipped count of the second equals the created count of the first
C19_SkippedEqualsCreated ==
    \A i, j \in 1..Len(runs) :
        (Twice(i, j) /\ j = i + 1 /\ runs[j].ending = "summary")
            => runs[j].skipped = runs[i].created

\* C20: no purchase-order create is sent with an empty list of items
C20_NoCreateWithoutLines ==
    \A k \in PoCreates : Get(step.reqs[k].body, "items").l # <<>>

\* the material resolver of a line asked Production for the material and for
\* the equipment, got neither, and asked for nothing else
LineFetchFailed ==
    /\ step.op = "line"
    /\ Len(step.reqs) = 2
    /\ \A k \in 1..2 : step.reqs[k].m = "GET" /\ step.reqs[k].env = "prod"

\* C21: a line whose item is unmapped and whose source fetch fails is dropped
\* alone: the step does not raise, the order goes on to its next line and no
\* error is counted for it
C21_FailedLineIsDroppedAlone ==
    LineFetchFailed => (~step.exc /\ pc = "line" /\ step.derrors = 0)

\* the order being assembled by sync has no business unit id
SyncWithoutBusinessUnit == cmd.name = "sync" /\ ~Truthy(po.bu_int_id)

\* C22: in sync an order whose business unit is not found in the destination
\* and has no configured default goes on to its lines, and when it is
\* submitted the create request carries no businessUnitId
C22_NoBusinessUnitStillSubmits ==
    [][/\ (pc = "bu" /\ cmd.name = "sync" /\ dest.bus = <<>> /\ envs.bu = None)
            => (pc' = "line" /\ ~step'.exc /\ ~Truthy(po'.bu_int_id))
       /\ (pc = "submit" /\ SyncWithoutBusinessUnit /\ ~cmd.dry_run
             /\ Posts(step'.reqs) # {})
            => \E k \in Posts(step'.reqs) :
                  /\ step'.reqs[k].res = "purchase-orders"
                  /\ "businessUnitId" \notin DOMAIN step'.reqs[k].body
       /\ (pc = "submit" /\ SyncWithoutBusinessUnit /\ ~cmd.dry_run
             /\ Posts(step'.reqs) = {})
            => (step'.exc /\ step'.reqs = <<GetReq("int", "warehouses", 0)>>)]_vars

C22_Witness ==
    /\ step.op = "submit"
    /\ step.name = "sync"
    /\ step.val # None
    /\ dest.bus = <<>>
    /\ \E k \in PoCreates : "businessUnitId" \notin DOMAIN step.reqs[k].body

\* the item {id: 42, code: "A1", name: "Widget", active: true}
WidgetItem ==
    [id |-> JInt(42), code |-> JStr(<<"A", "1">>), name |-> JStr(WidgetWord), active |-> JBool(TRUE)]

\* C23: map_item_for_create maps the Widget item to exactly {code "A1", name
\* "Widget", description "Widget", active true}; the description is the
\* source's description, else its name; the code is the source's code, else
\* its itemCode, else "PROD-<id>"
C23_MapItemForCreate ==
    mapper.fn = "map_item_for_create" =>
        /\ mapper.src = WidgetItem =>
              /\ mapper.ok
              /\ mapper.val = [code |-> JStr(<<"A", "1">>), name |-> JStr(WidgetWord),
                               description |-> JStr(WidgetWord), active |-> JBool(TRUE)]
        /\ mapper.ok =>
              /\ mapper.val.description =
                    IF Truthy(Get(mapper.src, "description")) THEN mapper.src.description
                    ELSE IF Truthy(Get(mapper.src, "name")) THEN mapper.src.name
                    ELSE JStr(UnknownItem)
              /\ mapper.val.code =
                    IF Truthy(Get(mapper.src, "code")) THEN mapper.src.code
                    ELSE IF Truthy(Get(mapper.src, "itemCode")) THEN mapper.src.itemCode
                    ELSE JStr(<<"P", "R", "O", "D", "-">> \o Fmt(Get(mapper.src, "id")))

\* the mapper was applied to an item without description and without code
C23_Witness ==
    /\ mapper.fn = "map_item_for_create"
    /\ mapper.ok
    /\ DOMAIN mapper.src = {"id", "name"}
    /\ mapper.val.description = JStr(WidgetWord)
    /\ mapper.val.code = JStr(<<"P", "R", "O", "D", "-", "4", "2">>)

\* both processes created a destination record for the key and both have
\* written their crosswalk entry
BothCreated(key) ==
    /\ \E i, j \in MadeFor(key) : made[i].by # made[j].by
    /\ \A p \in Procs : procs[p].n = Len(RaceKeys) \/ RaceKey(p) # key

\* C24: the crosswalk holds one row per key, with the id of the last put;
\* when both processes created a record for the same key, the record whose
\* id was put first is left without a crosswalk entry
C24_RaceKeepsLastWrite ==
    \A n \in 1..Len(RaceKeys) :
        LET key == RaceKeys[n]
            rows == RowsOf(id_map, key.kind, key.prod_id)
        IN  /\ Cardinality(rows) <= 1
            /\ <<key.kind, key.prod_id>> \in DOMAIN lastPut
                  => DbGet(id_map, key.kind, key.prod_id) = Some(lastPut[<<key.kind, key.prod_id>>])
            /\ BothCreated(key)
                  => \E k \in MadeFor(key) : \A r \in rows : r.int_id # made[k].int_id

\* two records were created for vendor 5, one by each process, and the
\* crosswalk holds the id of one of them only
C24_Witness ==
    /\ BothCreated(RaceKeys[1])
    /\ Cardinality(MadeFor(RaceKeys[1])) = 2
    /\ Cardinality(RowsOf(id_map, "vendors", <<"5">>)) = 1
    /\ \A p \in Procs : procs[p].n = Len(RaceKeys)

\* the ways a start can go in which settings or the configuration document
\* are missing or invalid
BadSetups == {"env", "config", "schema"}

\* C25: when required settings are missing or the configuration document is
\* missing or violates its schema, sync and copy-po end before any network
\* request: no command runs on, no token request and no data request is issued
C25_BadSetupBeforeNetwork ==
    /\ cmd.boot \notin BadSetups
    /\ \A i \in 1..Len(runs) :
          runs[i].boot \in BadSetups
              => /\ runs[i].ending = "setup"
                 /\ runs[i].tokens = 0
                 /\ runs[i].seen = 0
                 /\ runs[i].tops + runs[i].deps = 0

\* C26: no POST goes to Production, every create goes to Integration, and
\* every request carries the tenant id and the application key of the
\* environment it is sent to
C26_WritesGoToIntegrationOnly ==
    \A k \in 1..Len(step.reqs) :
        /\ step.reqs[k].env \in {"prod", "int"}
        /\ step.reqs[k].m = "POST" => step.reqs[k].env = "int"
        /\ step.reqs[k].env = "prod"
              => /\ step.reqs[k].tenant_id = "TENANT_ID_PROD"
                 /\ step.reqs[k].app_key = "APP_KEY_PROD"
        /\ step.reqs[k].env = "int"
              => /\ step.reqs[k].tenant_id = "TENANT_ID_INT"
                 /\ step.reqs[k].app_key = "APP_KEY_INT"

\* a step read from Production and created in Integration
C26_Witness ==
    /\ \E k \in 1..Len(step.reqs) : step.reqs[k].m = "GET" /\ step.reqs[k].env = "prod"
    /\ \E k \in Posts(step.reqs) : step.reqs[k].app_key = "APP_KEY_INT"
    /\ step.val # None

\* the place of a resolution step in the order vendor, warehouse, materials,
\* business unit, purchase-order type; 0 for any other step
Rank(op) ==
    CASE op = "vendor" -> 1
      [] op = "warehouse" -> 2
      [] op \in {"line", "lines"} -> 3
      [] op = "bu" -> 4
      [] op = "potype" -> 5
      [] OTHER -> 0

\* C27: for one purchase order the resolution steps follow each other in the
\* order vendor, warehouse, materials, business unit, purchase-order type
C27_ResolutionOrder ==
    [][(/\ Rank(step.op) > 0 /\ Rank(step'.op) > 0
        /\ ~step.exc
        /\ cmd # CmdNone
        /\ step'.name = step.name /\ step'.rec = step.rec)
       => Rank(step'.op) >= Rank(step.op)]_vars

\* C28 as stated: during one sync run the purchase-order-type lookup request
\* is issued at most once
C28_TypeLookupAtMostOnce ==
    /\ cmd.name = "sync" => tally.types <= 1
    /\ \A i \in 1..Len(runs) : runs[i].name = "sync" => runs[i].types <= 1

\* C28: once a lookup of a sync run has returned a type id, the run issues no
\* further lookup and keeps the id, and every order the run submits carries
\* it as typeId; a lookup that returned nothing is repeated for the next order
C28_TypeLookupOnceFound ==
    [][/\ (cmd.name = "sync" /\ cmd' = cmd /\ loop.po_type_id_cache.t = "int")
            => /\ loop'.po_type_id_cache = loop.po_type_id_cache
               /\ tally'.types = tally.types
       /\ (cmd.name = "sync" /\ cmd' = cmd /\ loop.po_type_id_cache.t = "null")
            => tally'.types <= tally.types + 1
       /\ (cmd.name = "sync" /\ cmd' = cmd)
            => \A k \in Posts(step'.reqs) :
                  step'.reqs[k].res = "purchase-orders"
                     => /\ Get(step'.reqs[k].body, "typeId") = loop.po_type_id_cache
                        /\ step'.reqs[k].body.typeId.t = "int"]_vars

\* the second order of a sync run was created with the type id that was
\* looked up once, for the first
C28_Witness ==
    /\ step.op = "submit"
    /\ step.name = "sync"
    /\ step.val # None
    /\ loop.created = 2
    /\ tally.types = 1
    /\ \E k \in PoCreates : Get(step.reqs[k].body, "typeId") = loop.po_type_id_cache

\* the crosswalk holds an entry for the source id v under kind
Held(kind, v) == v.t = "int" /\ DbGet(id_map, kind, ToStr(v.i)) # None

\* the step left the crosswalk alone and issued no request
Quiet == step'.reqs = <<>> /\ step'.puts = <<>> /\ id_map' = id_map /\ ~step'.exc

\* C29: a vendor, warehouse or material resolver called for a source id the
\* crosswalk holds an entry for returns without any request and without
\* writing to the crosswalk
C29_CrosswalkHitIsQuiet ==
    [][/\ (pc = "vendor" /\ Held("vendors", Get(po.src, "vendorId"))) => Quiet
       /\ (pc = "warehouse" /\ Held("warehouses", Get(po.src, "warehouseId"))
             /\ ~Truthy(Get(SubObj(po.src, "warehouse"), "name"))) => Quiet
       /\ (pc = "line" /\ po.n < Len(LinesOf(po.src))
             /\ Held("items", Get(LinesOf(po.src)[po.n + 1], "itemId"))) => Quiet]_vars

\* the material resolver answered a line of order 3 from the crosswalk entry
\* that an earlier order had left
C29_Witness ==
    /\ step.op = "line"
    /\ step.rec = <<"3">>
    /\ step.val # None
    /\ step.reqs = <<>>
    /\ step.puts = <<>>
    /\ DbGet(id_map, "items", <<"3">>) = Some(ToStr(step.val[1]))

\* the last request of a resolver step was the scan of the destination list:
\* the resolver read the source record and went no further than the scan
EndedAtScan ==
    /\ step.op \in {"vendor", "warehouse", "line"}
    /\ Len(step.reqs) >= 2
    /\ step.reqs[1].env = "prod"
    /\ step.reqs[Len(step.reqs)].m = "GET"
    /\ step.reqs[Len(step.reqs)].env = "int"

\* C30: a resolver whose natural-key scan fails does not fail: a step that
\* ends at the scan has not raised
C30_ScanFailureIsNoMatch == EndedAtScan => ~step.exc

\* the create calls of the material resolver among the requests of a line
\* step, in the order they were made
MaterialCreates == {k \in Posts(step.reqs) : step.reqs[k].res = "materials"}

\* the message of the error the k-th request raised speaks of uniqueness
ErrIsUnique(k) == Contains(Lower(step.reqs[k].err), UniqueWord)

\* C31: in the material resolver a create call that fails with a message
\* containing "unique" in any case is followed by exactly one more create
\* call, with the code "<code> - PROD-<id>" and without wrapper retry, and an
\* id it returns is written to the crosswalk and returned; a create call that
\* fails with any other message is the last one and the resolver raises
C31_UniqueRetriesOnce ==
    step.op = "line" =>
        /\ Cardinality(MaterialCreates) <= 2
        /\ \A k \in MaterialCreates :
              /\ (step.reqs[k].err # <<>> /\ ~ErrIsUnique(k))
                    => (step.exc /\ k = Len(step.reqs))
              /\ (ErrIsUnique(k) /\ step.reqs[k].allow)
                    => /\ Len(step.reqs) = k + 1
                       /\ step.reqs[k + 1].m = "POST"
                       /\ step.reqs[k + 1].res = "materials"
                       /\ ~step.reqs[k + 1].allow
                       /\ step.reqs[k + 1].body =
                             [step.reqs[k].body EXCEPT !["code"] =
                                 JStr(step.reqs[k].body.code.s \o <<" ", "-", " ", "P", "R", "O", "D", "-">>
                                         \o ToStr(step.reqs[1].id))]
                       /\ step.val # None
                             => /\ ~step.exc
                                /\ step.puts = <<PutRec("items", ToStr(step.reqs[1].id),
                                                        ToStr(step.val[1]))>>
                                /\ DbGet(id_map, "items", ToStr(step.reqs[1].id))
                                      = Some(ToStr(step.val[1]))
              /\ (k + 1) \in MaterialCreates => ErrIsUnique(k)

\* the first create call failed with "MUST BE UNIQUE", the second returned an id
C31_Witness ==
    /\ step.op = "line"
    /\ Cardinality(MaterialCreates) = 2
    /\ \E k \in MaterialCreates : ErrIsUnique(k) /\ step.reqs[k].err[1] = "M"
    /\ step.val # None
    /\ ~step.exc

\* the answer to the last request of the generator
LastData == Serve(gen.feed, gen.requested[Len(gen.requested)])

\* the generator is past the last record of a page and decides what follows
Decides == gen.state = "yield" /\ gen.buffer = <<>> /\ gen'.state \in {"request", "done"}

\* `int(params.get("page", 1))`
PageParam(params) == IF "page" \in DOMAIN params THEN PyInt(params["page"]).val ELSE 1

\* C32: after a page, an answer that has "hasMore" decides alone: true requests
\* the page after the current one, false ends the stream, whatever the
\* next-page key holds; without "hasMore", an integer under the next-page key
\* becomes `page` and a non-empty string becomes `continuationToken`
C32_PagingPrecedence ==
    [][Decides =>
        /\ ("hasMore" \in DOMAIN LastData /\ LastData["hasMore"] = JBool(TRUE)) =>
              /\ gen'.state = "request"
              /\ gen'.params = Put1(gen.params, "page", JInt(PageParam(gen.params) + 1))
        /\ ("hasMore" \in DOMAIN LastData /\ LastData["hasMore"] = JBool(FALSE)) =>
              /\ gen'.state = "done"
              /\ gen'.params = gen.params
        /\ ("hasMore" \notin DOMAIN LastData /\ Get(LastData, gen.next_key).t = "int") =>
              /\ gen'.state = "request"
              /\ gen'.params = Put1(gen.params, "page", Get(LastData, gen.next_key))
        /\ ("hasMore" \notin DOMAIN LastData /\ Get(LastData, gen.next_key).t = "str"
               /\ Get(LastData, gen.next_key).s # <<>>) =>
              /\ gen'.state = "request"
              /\ gen'.params = Put1(gen.params, "continuationToken", Get(LastData, gen.next_key))
    ]_vars

\* hasMore=true beside nextPage=3 led to page 2, whose hasMore=false beside a
\* token ended the stream
C32_Witness ==
    /\ gen.feed = FeedBoth
    /\ gen.next_key = "nextPage"
    /\ gen.state = "done"
    /\ Len(gen.requested) = 2
    /\ gen.requested[2]["page"] = JInt(2)
    /\ "continuationToken" \notin DOMAIN gen.params

\* the last answer has no "hasMore" and nothing usable under the next-page key
NoHint ==
    /\ "hasMore" \notin DOMAIN LastData
    /\ Get(LastData, gen.next_key).t # "int"
    /\ ~(Get(LastData, gen.next_key).t = "str" /\ Get(LastData, gen.next_key).s # <<>>)

\* `len(items)` of the last answer
LastCount == IF Truthy(Get(LastData, "items")) THEN Len(Get(LastData, "items").l) ELSE 0

RECURSIVE ServedTo(_)
ServedTo(k) ==
    IF k = 0 THEN <<>>
    ELSE ServedTo(k - 1) \o (IF Truthy(Get(Serve(gen.feed, gen.requested[k]), "items"))
                             THEN Get(Serve(gen.feed, gen.requested[k]), "items").l ELSE <<>>)

\* C34: whenever fetch_all is about to request a page, or has ended, the
\* consumer has received exactly the records of all pages requested so far,
\* each once and in page order; while a page is being handed over, the records
\* received and those still to come are together the records of these pages
C34_PageHandedOverBeforeNext ==
    /\ gen.state \in {"request", "done"} => gen.yielded = ServedTo(Len(gen.requested))
    /\ gen.state = "yield" => gen.yielded \o gen.buffer = ServedTo(Len(gen.requested))
    /\ gen.state = "raised" => gen.yielded = ServedTo(Len(gen.requested) - 1)

\* the third page is about to be requested after a page of one and a page of
\* two records
C34_Witness ==
    /\ gen.feed = FeedThree
    /\ gen.state = "request"
    /\ Len(gen.requested) = 2
    /\ gen.yielded = <<"a", "b", "c">>

\* sync pulls its records page by page: a source page is requested only when
\* every record of the pages before it was pulled and the record limit, if
\* any, is not reached
SyncPullsPageByPage ==
    [][loop'.page > loop.page =>
        /\ loop.page >= 1 => loop.off = Len(Pages[loop.page])
        /\ ~(cmd.limit # 0 /\ loop.processed >= cmd.limit)
    ]_vars
\* the k-th request of the call met HTTP 429 or a connection failure
Transient(k) == call.log[k].status = 429 \/ call.log[k].status = 0

\* C35: a token request that meets HTTP 429 or a connection failure is followed
\* by another attempt until four were made, and the fourth such failure
\* surfaces; a token request that fails in any other way is the last one
C35_TokenRetriesLikeData ==
    call.fn = "token" =>
        \A k \in 1..Len(call.log) :
            IF Transient(k)
            THEN /\ k <= Attempts
                 /\ (k < Attempts /\ k = Len(call.log)) => call.state = "running"
                 /\ k = Attempts => call.state = "raised"
            ELSE call.log[k].status >= 400 => (k = Len(call.log) /\ call.state = "raised")
\* C36: a put(kind, source_id, destination_id) leaves every row of another key,
\* the same source_id under another kind included, as it was and adds no row
\* of another key; get and exists change nothing; no step leaves a key that had
\* an entry without one
C36_PutTouchesOneKey ==
    [][/\ ret'.op = "put" =>
             \A kind \in DbKinds, prod_id \in DbIds :
                 <<kind, prod_id>> # <<ret'.kind, ret'.prod_id>> =>
                     RowsOf(id_map', kind, prod_id) = RowsOf(id_map, kind, prod_id)
       /\ ret'.op # "put" => id_map' = id_map
       /\ \A r \in id_map : RowsOf(id_map', r.kind, r.prod_id) # {}
    ]_vars

\* the entry of a source id was replaced while the same source id under the
\* other kind kept its earlier entry
C36_Witness ==
    /\ ret.op = "put"
    /\ now = 3
    /\ \E r1 \in id_map, r2 \in id_map :
          /\ r1.prod_id = r2.prod_id
          /\ r1.kind # r2.kind
          /\ r2.kind = ret.kind
          /\ r1.created_at = 0
          /\ r2.created_at = 2
\* the last step was sync's create step for a top-level record
TopStep == step.name = "sync" /\ cmd.name = "sync" /\ step.op \in {"legacy", "submit"}

\* C37: a create step of sync writes at most one crosswalk entry; when it
\* writes one, the step did not raise, its last request is the create call, and
\* the entry maps the record's source id under the synced kind to the id that
\* call returned, which is not empty; when it writes none (the call failed or
\* returned no id) the crosswalk has no entry for the record
C37_EntryOnlyAfterCreate ==
    TopStep =>
        /\ Len(step.puts) <= 1
        /\ step.puts # <<>> =>
              /\ ~step.exc
              /\ step.reqs # <<>>
              /\ step.reqs[Len(step.reqs)].m = "POST"
              /\ step.reqs[Len(step.reqs)].res \in TopResources
              /\ step.puts[1].kind = cmd.kind
              /\ step.puts[1].prod_id = step.rec
              /\ step.puts[1].int_id # <<>>
              /\ step.puts[1].int_id \in {ToStr(nextId - 1), <<"g">> \o ToStr(nextId - 1)}
              /\ RowsOf(id_map, cmd.kind, step.rec) # {}
              /\ \A r \in RowsOf(id_map, cmd.kind, step.rec) : r.int_id = step.puts[1].int_id
        /\ step.puts = <<>> => RowsOf(id_map, cmd.kind, step.rec) = {}

\* a second run creates and maps the record whose create call returned no id
\* in the first run
C37_Witness ==
    /\ TopStep
    /\ Len(runs) = 1
    /\ runs[1].name = "sync"
    /\ runs[1].errors = 1
    /\ runs[1].created = 0
    /\ runs[1].tops = 1
    /\ step.puts # <<>>
    /\ loop.created = 1
    /\ loop.off = 1
    /\ loop.page = 1
\* the kinds under which the dependencies of a purchase order are recorded
DepKinds == {"vendors", "warehouses", "items"}

\* the step issued a create call to this resource
Creates(st, res) == \E k \in Posts(st.reqs) : st.reqs[k].res = res

\* the source item id of the line that the next line step resolves
NextItemId ==
    OrKeys(LinesOf(po.src)[po.n + 1],
           <<"itemId", "pricebookItemId", "materialId", "equipmentId", "skuId">>)

\* C38: an entry written for a vendor, a warehouse or a material stays as it
\* is through every later step, the failure of its purchase order and later
\* runs included, and a resolver step issues a create call only for a source
\* id that has no entry: processing the order again creates none of them anew
C38_DependenciesAreKept ==
    [][/\ \A r \in id_map : (r.kind \in DepKinds /\ r.int_id # <<>>) => r \in id_map'
       /\ (pc = "vendor" /\ Creates(step', "vendors")) => ~Held("vendors", Get(po.src, "vendorId"))
       /\ (pc = "warehouse" /\ Creates(step', "warehouses"))
             => ~Held("warehouses", Get(po.src, "warehouseId"))
       /\ (pc = "line" /\ Creates(step', "materials")) => ~Held("items", NextItemId)
       /\ pc \notin {"vendor", "warehouse", "line"} =>
             \A k \in Posts(step'.reqs) : step'.reqs[k].res \in TopResources
    ]_vars

\* order 1 failed at its create call in the first run, after its vendor, its
\* warehouse and its materials had been created; the second run submits it
\* without a create call for any dependency
C38_Witness ==
    /\ Len(runs) = 1
    /\ runs[1].name = "sync"
    /\ runs[1].errors >= 1
    /\ runs[1].deps >= 4
    /\ ~DbExists(id_map, "pos", <<"2">>)
    /\ step.name = "sync"
    /\ step.op = "submit"
    /\ step.rec = <<"1">>
    /\ step.puts # <<>>
    /\ tally.deps = 0
\* C39: a line step that resolved its material by a match or a create call
\* writes the entry ("items", source item id) with the id it resolved; and
\* sync of kind items passes over a source item whose id has such an entry:
\* the record is counted as skipped and no request is issued for it
C39_MaterialIsAnItem ==
    [][/\ (pc = "line" /\ step'.op = "line" /\ step'.reqs # <<>> /\ step'.val # None) =>
             /\ step'.puts = <<PutRec("items", PyStr(NextItemId), ToStr(step'.val[1]))>>
             /\ \A r \in RowsOf(id_map', "items", PyStr(NextItemId)) :
                    r.int_id = ToStr(step'.val[1])
             /\ RowsOf(id_map', "items", PyStr(NextItemId)) # {}
       /\ (pc = "stream" /\ cmd.kind = "items" /\ HasRecord /\ ProdIdOf(Rec) # <<>>
             /\ RowsOf(id_map, "items", ProdIdOf(Rec)) # {}) =>
             /\ step'.op = "skip"
             /\ step'.reqs = <<>>
             /\ loop'.skipped = loop.skipped + 1
             /\ tally'.tops = tally.tops
             /\ id_map' = id_map
    ]_vars

\* after a command on purchase orders that created material 3, sync of items
\* has skipped item 3 and has issued create calls for other items only
C39_Witness ==
    /\ Len(runs) = 1
    /\ runs[1].kind = "pos"
    /\ runs[1].deps >= 1
    /\ cmd.name = "sync"
    /\ cmd.kind = "items"
    /\ step.op = "skip"
    /\ step.rec = <<"3">>
    /\ loop.skipped = 1
    /\ DbGet(id_map, "items", <<"3">>) = Some(<<"3", "0", "2">>)
\* C40: no step writes a crosswalk entry for a (kind, source id) that already
\* has one, and the create call of a purchase order is not submitted once its
\* source id is mapped under kind "pos"
C40_OneCreatePerSource ==
    [][/\ \A r \in id_map' \ id_map : RowsOf(id_map, r.kind, r.prod_id) = {}
       /\ (pc = "submit" /\ RowsOf(id_map, "pos", po.prod_id) # {})
             => ~Creates(step', "purchase-orders")
    ]_vars
====
